---- MODULE Spec2Model ----
(***************************************************************************)
(* Identity-aware RAG + MCP gateway: the policy engine (RBAC + ABAC), the  *)
(* identity gateway entrypoints, the RAG orchestrator's namespace router   *)
(* and the MCP tool dispatchers, as state machines translated from the     *)
(* Python sources under src/lab_platform.                                  *)
(*                                                                         *)
(* Conventions for Python values:                                          *)
(*   - a dict is a function whose DOMAIN is the set of keys present;       *)
(*   - None is the string None (all optional scalars are strings);         *)
(*   - a YAML value that is a list or null is YList(set) or YNull; the     *)
(*     code only tests membership and truthiness of these lists, so the    *)
(*     items are kept as a set;                                            *)
(*   - a formatted message (f-string) is a record of its template's kind   *)
(*     and the values interpolated into it.                                *)
(***************************************************************************)
EXTENDS Integers, Sequences, FiniteSets, TLC

\* ---------------------------------------------------------------- bounds
MaxRules == 2      \* longest abac_rules list explored
MaxClock == 1      \* last second of wall-clock time explored
MaxCalls == 2      \* requests the gateway handles in one process run
MaxThreads == 2    \* concurrent callers of server.py's run_tool

\* ------------------------------------------------------- Python helpers
None == "None"

YNull == [t |-> "null"]
YList(s) == [t |-> "list", v |-> s]

\* d.get(k, dflt)
Get(d, k, dflt) == IF k \in DOMAIN d THEN d[k] ELSE dflt

\* bool(x) of a YAML list-or-null value: None and [] are falsy
TruthyList(x) == x.t = "list" /\ x.v # {}

\* `x or []` of a YAML list-or-null value, as the set of its items
OrEmpty(x) == IF TruthyList(x) THEN x.v ELSE {}

\* bool(s) of an optional string: None and "" are falsy
TruthyStr(s) == s # None /\ s # ""

Range(s) == {s[i] : i \in 1..Len(s)}

\* ------------------------------------------------------------- universes
ScopeNames == {"clinical_department", "clinical_all"}
ToolNames == {"echo", "identity_disable_user", "rag_query", "does_not_exist"}
Wildcard == "*"
Departments == {"Cardiology", "Neurology"}

\* ------------------------------------------------------------------ state
VARIABLES
  policy,          \* PolicyEngine._config: the loaded abac_policies.yaml
  toolPolicyFile,  \* config/mcp_tool_policies.yaml on disk
  clock,           \* wall-clock time, in whole seconds
  gw,              \* identity gateway: the last request handled and its response
  gwLog,           \* identity gateway: the [EVIDENCE] entries printed so far
  rbacOut,         \* the last direct calls of the policy engine and what they returned
  ragCfg,          \* RAGOrchestrator.config: the loaded rag_config.yaml
  backend,         \* the pinecone package, its API key and whether init works
  pineconeIndex,   \* RAGOrchestrator._pinecone_index
  knowledge,       \* docs/knowledge: the markdown titles of each folder
  rag,             \* RAG orchestrator: the last query and what it returned
  srvTools,        \* server.py MCPServer.tools: the tools of config.yaml
  iamDb,           \* iam_state.json: the "users" of the lab directory
  accessLog,       \* server.py: the records of logs/access.log.jsonl
  mcp,             \* MCP dispatchers: the last run_tool call and its outcome
  threads          \* the concurrent callers (of server.py's run_tool, or of the IAM tools), each at its step

gwVars == <<policy, toolPolicyFile, clock, gw, gwLog, rbacOut>>
ragVars == <<ragCfg, backend, pineconeIndex, knowledge, rag>>
mcpVars == <<srvTools, iamDb, accessLog, mcp, threads>>
vars == <<gwVars, ragVars, mcpVars>>

Idle == [op |-> "idle"]

\* ============================================================ PolicyEngine
\* The loaded policy document (PolicyEngine._config) is the variable policy:
\* a dict with optional keys "roles" and "abac_rules".

\* PolicyEngine.roles / PolicyEngine.abac_rules
RolesOf(cfg) == Get(cfg, "roles", <<>>)
AbacRulesOf(cfg) == Get(cfg, "abac_rules", <<>>)

\* PolicyEngine.get_rag_scopes_for_role
GetRagScopesForRole(cfg, role) ==
  LET role_cfg == Get(RolesOf(cfg), role, <<>>)
  IN  OrEmpty(Get(role_cfg, "rag_access", YList({})))

IsToolAllowedForRoleNoWildcard(cfg, role, tool_name) ==
  LET role_cfg == Get(RolesOf(cfg), role, <<>>)
      tools == OrEmpty(Get(role_cfg, "mcp_tools", YList({})))
  IN  tool_name \in tools

\* PolicyEngine.is_tool_allowed_for_role
IsToolAllowedForRole(cfg, role, tool_name) ==
  LET role_cfg == Get(RolesOf(cfg), role, <<>>)
      tools == OrEmpty(Get(role_cfg, "mcp_tools", YList({})))
  IN  IF Wildcard \in tools THEN TRUE ELSE tool_name \in tools

\* ------------------------------------------------ the condition language
\* A rule's condition is Python expression text handed to eval() with no
\* builtins and the locals {claims, doc}. The expressions explored, by
\* their text; NoCondition is a rule without a "condition" key.
CondSameDept == "claims['department'] == doc['department']"
CondLicense == "claims.get('license_status') == 'valid'"
CondHasDept == "claims.get('department')"
CondPopDept == "doc.pop('department', None) == claims['department']"
CondAdoptDept == "claims.update(department=doc.get('department')) is None"
NoCondition == None

Returned(b, claims, doc) ==
  [raised |-> FALSE, result |-> b, exc |-> None, claims |-> claims, doc |-> doc]
Raised(e, claims, doc) ==
  [raised |-> TRUE, result |-> FALSE, exc |-> e, claims |-> claims, doc |-> doc]

\* dict without key k
DictRemove(d, k) == [x \in DOMAIN d \ {k} |-> d[x]]
\* dict with d[k] = v
DictPut(d, k, v) == [x \in DOMAIN d \cup {k} |-> IF x = k THEN v ELSE d[x]]

\* bool(eval(condition_expr, {"__builtins__": {}}, {"claims": claims, "doc": doc})):
\* the value or the exception, and the two dicts as the expression leaves them.
EvalCondition(cond, claims, doc) ==
  CASE cond = CondSameDept ->
         IF "department" \in DOMAIN doc
         THEN Returned(claims["department"] = doc["department"], claims, doc)
         ELSE Raised("KeyError: 'department'", claims, doc)
    [] cond = CondLicense ->
         Returned(Get(claims, "license_status", None) = "valid", claims, doc)
    [] cond = CondHasDept ->
         Returned(TruthyStr(Get(claims, "department", None)), claims, doc)
    [] cond = CondPopDept ->
         Returned(Get(doc, "department", None) = claims["department"],
                  claims, DictRemove(doc, "department"))
    [] cond = CondAdoptDept ->
         Returned(TRUE, DictPut(claims, "department", Get(doc, "department", None)), doc)
    [] OTHER ->
         Raised("TypeError: eval() arg 1 must be a string, bytes or code object",
                claims, doc)

\* `if applies_to and scope not in applies_to: continue`
RuleSkipped(rule, scope) ==
  LET applies_to == Get(rule, "applies_to", YNull)
  IN  TruthyList(applies_to) /\ scope \notin applies_to.v

ErrorReason(rule, exc) ==
  [kind |-> "error", rule |-> Get(rule, "name", None), detail |-> exc]
FailedReason(rule) ==
  [kind |-> "failed", rule |-> Get(rule, "name", None),
   detail |-> Get(rule, "deny_when_false", YList({}))]

\* One iteration of the loop of evaluate_abac_for_doc over rule, from the
\* accumulated state acc = [allowed, reasons, outcomes, claims, doc].
\* outcomes records which branch each rule took.
AbacStepResetOnPass(acc, rule, scope) ==
  IF RuleSkipped(rule, scope)
  THEN [acc EXCEPT !.outcomes = Append(@, "skip")]
  ELSE LET ev == EvalCondition(Get(rule, "condition", NoCondition), acc.claims, acc.doc)
       IN  IF ev.raised
           THEN [allowed |-> FALSE,
                 reasons |-> Append(acc.reasons, ErrorReason(rule, ev.exc)),
                 outcomes |-> Append(acc.outcomes, "error"),
                 claims |-> ev.claims, doc |-> ev.doc]
           ELSE [allowed |-> ev.result,
                 reasons |-> IF ev.result THEN acc.reasons
                             ELSE Append(acc.reasons, FailedReason(rule)),
                 outcomes |-> Append(acc.outcomes, IF ev.result THEN "pass" ELSE "fail"),
                 claims |-> ev.claims, doc |-> ev.doc]

AbacStepFailOpen(acc, rule, scope) ==
  IF RuleSkipped(rule, scope)
  THEN [acc EXCEPT !.outcomes = Append(@, "skip")]
  ELSE LET ev == EvalCondition(Get(rule, "condition", NoCondition), acc.claims, acc.doc)
       IN  IF ev.raised
           THEN [allowed |-> acc.allowed,
                 reasons |-> acc.reasons,
                 outcomes |-> Append(acc.outcomes, "error"),
                 claims |-> ev.claims, doc |-> ev.doc]
           ELSE [allowed |-> acc.allowed /\ ev.result,
                 reasons |-> IF ev.result THEN acc.reasons
                             ELSE Append(acc.reasons, FailedReason(rule)),
                 outcomes |-> Append(acc.outcomes, IF ev.result THEN "pass" ELSE "fail"),
                 claims |-> ev.claims, doc |-> ev.doc]

AbacStepSilentDeny(acc, rule, scope) ==
  IF RuleSkipped(rule, scope)
  THEN [acc EXCEPT !.outcomes = Append(@, "skip")]
  ELSE LET ev == EvalCondition(Get(rule, "condition", NoCondition), acc.claims, acc.doc)
       IN  IF ev.raised
           THEN [allowed |-> FALSE,
                 reasons |-> Append(acc.reasons, ErrorReason(rule, ev.exc)),
                 outcomes |-> Append(acc.outcomes, "error"),
                 claims |-> ev.claims, doc |-> ev.doc]
           ELSE [allowed |-> acc.allowed /\ ev.result,
                 reasons |-> acc.reasons,
                 outcomes |-> Append(acc.outcomes, IF ev.result THEN "pass" ELSE "fail"),
                 claims |-> ev.claims, doc |-> ev.doc]

AbacStep(acc, rule, scope) ==
  IF RuleSkipped(rule, scope)
  THEN [acc EXCEPT !.outcomes = Append(@, "skip")]
  ELSE LET ev == EvalCondition(Get(rule, "condition", NoCondition), acc.claims, acc.doc)
       IN  IF ev.raised
           THEN [allowed |-> FALSE,
                 reasons |-> Append(acc.reasons, ErrorReason(rule, ev.exc)),
                 outcomes |-> Append(acc.outcomes, "error"),
                 claims |-> ev.claims, doc |-> ev.doc]
           ELSE [allowed |-> acc.allowed /\ ev.result,
                 reasons |-> IF ev.result THEN acc.reasons
                             ELSE Append(acc.reasons, FailedReason(rule)),
                 outcomes |-> Append(acc.outcomes, IF ev.result THEN "pass" ELSE "fail"),
                 claims |-> ev.claims, doc |-> ev.doc]

\* `for rule in self.abac_rules:` from rule i on
RECURSIVE AbacLoopBreakOnDeny(_, _, _, _)
AbacLoopBreakOnDeny(rules, i, acc, scope) ==
  IF i > Len(rules) \/ ~acc.allowed THEN acc
  ELSE AbacLoopBreakOnDeny(rules, i + 1, AbacStep(acc, rules[i], scope), scope)

RECURSIVE AbacLoop(_, _, _, _)
AbacLoop(rules, i, acc, scope) ==
  IF i > Len(rules) THEN acc
  ELSE AbacLoop(rules, i + 1, AbacStep(acc, rules[i], scope), scope)

\* PolicyEngine.evaluate_abac_for_doc: (allowed, reasons), with the branch
\* each rule took and the caller's two dicts as the call leaves them.
EvaluateAbacForDoc(cfg, claims, doc, scope) ==
  AbacLoop(AbacRulesOf(cfg), 1,
           [allowed |-> TRUE, reasons |-> <<>>, outcomes |-> <<>>,
            claims |-> claims, doc |-> doc],
           scope)

\* tool_name.startswith("identity_"), over ToolNames
StartsWithIdentity(tool_name) == tool_name \in {"identity_disable_user"}

\* evaluate_tool_abac with the license looked at before the tool list
EvaluateToolAbacLicenseFirst(cfg, claims, tool_name) ==
  LET role == Get(claims, "role", None)
  IN  IF ~TruthyStr(role)
      THEN [allowed |-> FALSE, reasons |-> <<[kind |-> "missing_role"]>>]
      ELSE IF StartsWithIdentity(tool_name)
              /\ Get(claims, "license_status", None) # "valid"
      THEN [allowed |-> FALSE, reasons |-> <<[kind |-> "license_not_valid"]>>]
      ELSE IF ~IsToolAllowedForRole(cfg, role, tool_name)
      THEN [allowed |-> FALSE,
            reasons |-> <<[kind |-> "tool_not_allowed", tool |-> tool_name, role |-> role]>>]
      ELSE [allowed |-> TRUE, reasons |-> <<>>]

\* PolicyEngine.evaluate_tool_abac
EvaluateToolAbac(cfg, claims, tool_name) ==
  LET role == Get(claims, "role", None)
  IN  IF ~TruthyStr(role)
      THEN [allowed |-> FALSE, reasons |-> <<[kind |-> "missing_role"]>>]
      ELSE IF ~IsToolAllowedForRole(cfg, role, tool_name)
      THEN [allowed |-> FALSE,
            reasons |-> <<[kind |-> "tool_not_allowed", tool |-> tool_name, role |-> role]>>]
      ELSE IF StartsWithIdentity(tool_name)
              /\ Get(claims, "license_status", None) # "valid"
      THEN [allowed |-> FALSE, reasons |-> <<[kind |-> "license_not_valid"]>>]
      ELSE [allowed |-> TRUE, reasons |-> <<>>]

\* --------------------------------------------- mcp_tool_policies.yaml
\* load_mcp_tool_policies: {} when the file is missing, else its content
LoadMcpToolPolicies(file) == IF ~file.exists THEN <<>> ELSE file.data

IsToolAllowedEmptyMeansAll(file, role, tool_name) ==
  LET policies == LoadMcpToolPolicies(file)
      roles_cfg == Get(policies, "roles", <<>>)
      role_cfg == Get(roles_cfg, role, <<>>)
      allowed == Get(role_cfg, "allowed_tools", YList({}))
  IN  IF DOMAIN role_cfg = {} THEN TRUE
      ELSE IF ~TruthyList(allowed) THEN TRUE
      ELSE IF Wildcard \in allowed.v THEN TRUE
      ELSE tool_name \in allowed.v

\* is_tool_allowed (module level); a role configured as null or {} is
\* `not role_cfg`, like a role that is absent
IsToolAllowed(file, role, tool_name) ==
  LET policies == LoadMcpToolPolicies(file)
      roles_cfg == Get(policies, "roles", <<>>)
      role_cfg == Get(roles_cfg, role, <<>>)
      allowed == Get(role_cfg, "allowed_tools", YList({}))
  IN  IF DOMAIN role_cfg = {} THEN FALSE
      ELSE IF ~TruthyList(allowed) THEN FALSE
      ELSE IF Wildcard \in allowed.v THEN TRUE
      ELSE tool_name \in allowed.v

\* ======================================================= identity gateway
\* _log_evidence: the id is "ev-" and the current time in whole seconds
EvidenceId(now) == <<"ev", now>>

LogEvidence(log, now, event_type) ==
  Append(log, [evidence_id |-> EvidenceId(now), event_type |-> event_type])

ScopeReason(scope, role, allowed_scopes) ==
  [kind |-> "scope_not_in_role", scope |-> scope, role |-> role,
   rag_scopes |-> allowed_scopes]

\* What rag_decision computes for a request: the response, whether
\* evaluate_abac_for_doc was called, the branch each rule took, the event
\* logged, and the request's two dicts as the handler leaves them.
RagDecisionAbacOnly(cfg, now, claims, scope, doc) ==
  LET role == Get(claims, "role", None)
      allowed_scopes == GetRagScopesForRole(cfg, role)
      abac == EvaluateAbacForDoc(cfg, claims, doc, scope)
  IN  [resp |-> [allowed |-> abac.allowed, rag_scopes |-> allowed_scopes,
                 reasons |-> abac.reasons, evidence_record_id |-> EvidenceId(now)],
       abac_called |-> TRUE, outcomes |-> abac.outcomes,
       event_type |-> IF abac.allowed THEN "rag_access_allowed" ELSE "rag_access_denied",
       claims_after |-> abac.claims, doc_after |-> abac.doc]

RagDecisionResult(cfg, now, claims, scope, doc) ==
  LET role == Get(claims, "role", None)
      allowed_scopes == GetRagScopesForRole(cfg, role)
  IN  IF scope \notin allowed_scopes
      THEN [resp |-> [allowed |-> FALSE, rag_scopes |-> allowed_scopes,
                      reasons |-> <<ScopeReason(scope, role, allowed_scopes)>>,
                      evidence_record_id |-> EvidenceId(now)],
            abac_called |-> FALSE, outcomes |-> <<>>,
            event_type |-> "rag_access_denied",
            claims_after |-> claims, doc_after |-> doc]
      ELSE LET abac == EvaluateAbacForDoc(cfg, claims, doc, scope)
           IN  [resp |-> [allowed |-> abac.allowed, rag_scopes |-> allowed_scopes,
                          reasons |-> abac.reasons,
                          evidence_record_id |-> EvidenceId(now)],
                abac_called |-> TRUE, outcomes |-> abac.outcomes,
                event_type |-> IF abac.allowed THEN "rag_access_allowed"
                               ELSE "rag_access_denied",
                claims_after |-> abac.claims, doc_after |-> abac.doc]

\* POST /gateway/rag
RagDecision(claims, scope, doc) ==
  /\ LET r == RagDecisionResult(policy, clock, claims, scope, doc)
     IN  /\ gw' = [op |-> "rag", claims |-> claims, requested_scope |-> scope,
                   log_before |-> gwLog,
                   doc_metadata |-> doc, resp |-> r.resp,
                   abac_called |-> r.abac_called, outcomes |-> r.outcomes,
                   claims_after |-> r.claims_after, doc_after |-> r.doc_after]
         /\ gwLog' = LogEvidence(gwLog, clock, r.event_type)
  /\ UNCHANGED <<policy, toolPolicyFile, clock, rbacOut, ragVars, mcpVars>>

\* POST /gateway/mcp
McpDecision(claims, tool_name) ==
  /\ LET d == EvaluateToolAbac(policy, claims, tool_name)
     IN  /\ gw' = [op |-> "mcp", claims |-> claims, tool_name |-> tool_name,
                   log_before |-> gwLog,
                   resp |-> [allowed |-> d.allowed, reasons |-> d.reasons,
                             evidence_record_id |-> EvidenceId(clock)]]
         /\ gwLog' = LogEvidence(gwLog, clock,
                                 IF d.allowed THEN "mcp_tool_allowed" ELSE "mcp_tool_denied")
  /\ UNCHANGED <<policy, toolPolicyFile, clock, rbacOut, ragVars, mcpVars>>

\* a second of wall-clock time passes
Tick ==
  /\ clock < MaxClock
  /\ clock' = clock + 1
  /\ UNCHANGED <<policy, toolPolicyFile, gw, gwLog, rbacOut, ragVars, mcpVars>>

\* direct calls of the RBAC lookups (the RBAC Evaluator's contract)
LookupScopes(role) ==
  /\ rbacOut' = [op |-> "get_rag_scopes_for_role", role |-> role,
                 result |-> GetRagScopesForRole(policy, role)]
  /\ UNCHANGED <<policy, toolPolicyFile, clock, gw, gwLog, ragVars, mcpVars>>

LookupToolForRole(role, tool_name) ==
  /\ rbacOut' = [op |-> "is_tool_allowed_for_role", role |-> role, tool |-> tool_name,
                 result |-> IsToolAllowedForRole(policy, role, tool_name)]
  /\ UNCHANGED <<policy, toolPolicyFile, clock, gw, gwLog, ragVars, mcpVars>>

LookupToolAllowed(role, tool_name) ==
  /\ rbacOut' = [op |-> "is_tool_allowed", role |-> role, tool |-> tool_name,
                 result |-> IsToolAllowed(toolPolicyFile, role, tool_name)]
  /\ UNCHANGED <<policy, toolPolicyFile, clock, gw, gwLog, ragVars, mcpVars>>

\* direct calls of evaluate_abac_for_doc. The caller holds one claims dict
\* and one doc dict (claims_now, doc_now) and hands the same two objects to
\* every call; calls lists what each call returned.
AbacReturn(abac) == [allowed |-> abac.allowed, reasons |-> abac.reasons]

EvaluateAbacCall(claims, doc, scope) ==
  /\ LET abac == EvaluateAbacForDoc(policy, claims, doc, scope)
     IN  rbacOut' = [op |-> "evaluate_abac_for_doc", claims |-> claims, doc |-> doc,
                     scope |-> scope, calls |-> <<AbacReturn(abac)>>,
                     outcomes |-> abac.outcomes,
                     claims_now |-> abac.claims, doc_now |-> abac.doc]
  /\ UNCHANGED <<policy, toolPolicyFile, clock, gw, gwLog, ragVars, mcpVars>>

\* the same call once more, the configuration unchanged
EvaluateAbacAgain ==
  /\ rbacOut.op = "evaluate_abac_for_doc"
  /\ LET abac == EvaluateAbacForDoc(policy, rbacOut.claims_now, rbacOut.doc_now,
                                    rbacOut.scope)
     IN  rbacOut' = [rbacOut EXCEPT !.calls = Append(@, AbacReturn(abac)),
                                    !.claims_now = abac.claims, !.doc_now = abac.doc]
  /\ UNCHANGED <<policy, toolPolicyFile, clock, gw, gwLog, ragVars, mcpVars>>

\* the rules of a policy document in another order: rule i goes to perm[i]
Permuted(cfg, perm) ==
  LET rules == AbacRulesOf(cfg)
  IN  [cfg EXCEPT !.abac_rules =
         [j \in 1..Len(rules) |-> rules[CHOOSE i \in 1..Len(rules) : perm[i] = j]]]

RuleOrders(n) == {f \in [1..n -> 1..n] : \A i, j \in 1..n : i # j => f[i] # f[j]}

\* evaluate_abac_for_doc on equal inputs under two engines whose policy
\* documents hold the same rules, in the configured order and in the order
\* perm
EvaluateAbacPermuted(claims, doc, scope, perm) ==
  /\ LET configured == EvaluateAbacForDoc(policy, claims, doc, scope)
         permuted == EvaluateAbacForDoc(Permuted(policy, perm), claims, doc, scope)
     IN  rbacOut' = [op |-> "evaluate_abac_permuted", claims |-> claims, doc |-> doc,
                     scope |-> scope, perm |-> perm,
                     configured |-> AbacReturn(configured),
                     permuted |-> AbacReturn(permuted)]
  /\ UNCHANGED <<policy, toolPolicyFile, clock, gw, gwLog, ragVars, mcpVars>>

\* ------------------------------------------------- the configurations
\* The YAML documents are not part of the sources; the configurations
\* explored are well-formed documents over these roles, scopes and rules.
StoreRoles == {"Physician", "IT_Admin"}
RoleNames == StoreRoles \cup {"Guest"}

RuleSameDept ==
  [name |-> "same-department-only", applies_to |-> YList({"clinical_department"}),
   condition |-> CondSameDept, deny_when_false |-> YList({"cross_department"})]
RuleLicense ==
  [name |-> "valid-license", condition |-> CondLicense,
   deny_when_false |-> YList({"license_invalid"})]
RuleHasDept ==
  [name |-> "has-department", applies_to |-> YList({}), condition |-> CondHasDept]
RulePopDept ==
  [name |-> "consume-department", applies_to |-> YList({"clinical_all"}),
   condition |-> CondPopDept, deny_when_false |-> YList({"cross_department"})]
RuleAdoptDept ==
  [name |-> "adopt-department", applies_to |-> YNull, condition |-> CondAdoptDept]
RuleNoCondition ==
  [name |-> "no-condition", applies_to |-> YList({"clinical_all"})]

RulePool ==
  {RuleSameDept, RuleLicense, RuleHasDept, RulePopDept, RuleAdoptDept, RuleNoCondition}

RuleLists == UNION {[1..n -> RulePool] : n \in 0..MaxRules}

DefaultRoles ==
  [Physician |-> [rag_access |-> YList({"clinical_department"}),
                  mcp_tools |-> YList({"rag_query"})],
   IT_Admin |-> [rag_access |-> YList({"clinical_department", "clinical_all"}),
                 mcp_tools |-> YList({Wildcard})]]

RagAccessValues ==
  {YNull, YList({}), YList({"clinical_department"}),
   YList({"clinical_department", "clinical_all"})}
McpToolsValues ==
  {YNull, YList({}), YList({Wildcard}), YList({"echo"}), YList({"echo", Wildcard}),
   YList({"identity_disable_user", "rag_query"})}

\* a role's entry: each key present or not
RoleConfigs ==
  {<<>>}
  \cup {[rag_access |-> a] : a \in RagAccessValues}
  \cup {[mcp_tools |-> m] : m \in McpToolsValues}
  \cup {[rag_access |-> a, mcp_tools |-> m] : a \in RagAccessValues, m \in McpToolsValues}

\* policy documents: every rule list with the default roles, and every
\* entry for Physician (or none) with the department rule or no rules key
PolicyDocs ==
  {[roles |-> DefaultRoles, abac_rules |-> rl] : rl \in RuleLists}
  \cup {[roles |-> [DefaultRoles EXCEPT !.Physician = rc], abac_rules |-> <<RuleSameDept>>] :
          rc \in RoleConfigs}
  \cup {[roles |-> [IT_Admin |-> DefaultRoles.IT_Admin]], <<>>}

AllowedToolsValues ==
  {YNull, YList({}), YList({Wildcard}), YList({"echo"}), YList({"echo", Wildcard}),
   YList({"identity_disable_user", "rag_query"})}

ToolRoleConfigs == {<<>>} \cup {[allowed_tools |-> a] : a \in AllowedToolsValues}

DefaultToolRoles ==
  [Physician |-> [allowed_tools |-> YList({"rag_query"})],
   IT_Admin |-> [allowed_tools |-> YList({Wildcard})]]

ToolPolicyFiles ==
  {[exists |-> FALSE]}
  \cup {[exists |-> TRUE, data |-> d] :
          d \in {<<>>, [roles |-> [IT_Admin |-> DefaultToolRoles.IT_Admin]]}}
  \cup {[exists |-> TRUE, data |-> [roles |-> [DefaultToolRoles EXCEPT !.Physician = rc]]] :
          rc \in ToolRoleConfigs}

DefaultToolPolicyFile == [exists |-> TRUE, data |-> [roles |-> DefaultToolRoles]]

\* claims as ClaimsModel.model_dump() gives them: every field present
GatewayClaims ==
  [sub : {"u1"}, role : RoleNames \cup {""},
   department : Departments \cup {None}, clinic_id : {None}, clearance : {None},
   license_status : {"valid", None}, region : {None}]

DocMetadata == {<<>>} \cup {[department |-> d] : d \in Departments}

\* ========================================================= RAGOrchestrator
MaxNamespaces == 2   \* most namespaces in rag_config.yaml
MaxDocs == 2         \* most markdown files in one knowledge folder
MaxTopK == 2         \* largest top_k a caller passes

\* an optional integer (top_k: Optional[int])
Nothing == [some |-> FALSE]
Some(n) == [some |-> TRUE, v |-> n]

\* the namespaces of the configuration, in the order of the YAML mapping:
\* a list of [name, cfg]
SelectNamespaceLast(cfg, role, requested_scope) ==
  LET nss == cfg.namespaces
      Matches(i) == /\ role \in OrEmpty(Get(nss[i].cfg, "allowed_roles", YList({})))
                    /\ requested_scope \in OrEmpty(Get(nss[i].cfg, "rag_scopes", YList({})))
      hits == {i \in 1..Len(nss) : Matches(i)}
  IN  IF hits = {} THEN None
      ELSE nss[CHOOSE i \in hits : \A j \in hits : j <= i].name

SelectNamespaceRoleOnly(cfg, role, requested_scope) ==
  LET nss == cfg.namespaces
      Matches(i) == role \in OrEmpty(Get(nss[i].cfg, "allowed_roles", YList({})))
      hits == {i \in 1..Len(nss) : Matches(i)}
  IN  IF hits = {} THEN None
      ELSE nss[CHOOSE i \in hits : \A j \in hits : i <= j].name

\* RAGOrchestrator.select_namespace: the first namespace, in configuration
\* order, whose allowed_roles holds the role and whose rag_scopes holds the
\* scope; None when there is none
SelectNamespace(cfg, role, requested_scope) ==
  LET nss == cfg.namespaces
      Matches(i) == /\ role \in OrEmpty(Get(nss[i].cfg, "allowed_roles", YList({})))
                    /\ requested_scope \in OrEmpty(Get(nss[i].cfg, "rag_scopes", YList({})))
      hits == {i \in 1..Len(nss) : Matches(i)}
  IN  IF hits = {} THEN None
      ELSE nss[CHOOSE i \in hits : \A j \in hits : i <= j].name

\* _get_index without the normalisation of init failures: a failing
\* pinecone.init is let through, and query goes on with the index it has
GetIndexInitUnchecked(be, cached) ==
  IF ~be.installed
  THEN [raised |-> TRUE, exc |-> "pinecone package is not installed", index |-> cached]
  ELSE IF cached = None /\ ~be.api_key
  THEN [raised |-> TRUE, exc |-> "PINECONE_API_KEY env var not set", index |-> cached]
  ELSE [raised |-> FALSE, exc |-> None, index |-> cached]

\* RAGOrchestrator._get_index: the index, or the RuntimeError raised
GetIndex(be, cached) ==
  IF ~be.installed
  THEN [raised |-> TRUE, exc |-> "pinecone package is not installed", index |-> cached]
  ELSE IF cached = None
  THEN IF ~be.api_key
       THEN [raised |-> TRUE, exc |-> "PINECONE_API_KEY env var not set", index |-> cached]
       ELSE IF ~be.init_ok
       THEN [raised |-> TRUE, exc |-> "Pinecone init failed", index |-> cached]
       ELSE [raised |-> FALSE, exc |-> None, index |-> "index"]
  ELSE [raised |-> FALSE, exc |-> None, index |-> cached]

\* a filter builder that fills in what a claim lacks
BuildMetadataFilterDefaulting(claims) ==
  LET FilterKeys == {"department", "clinic_id", "clearance_level", "region"}
      ClaimKey(f) == IF f = "clearance_level" THEN "clearance" ELSE f
  IN  [f \in FilterKeys |->
         IF TruthyStr(Get(claims, ClaimKey(f), None)) THEN claims[ClaimKey(f)] ELSE "Unknown"]

\* RAGOrchestrator.build_metadata_filter
BuildMetadataFilter(claims) ==
  LET Present(k) == TruthyStr(Get(claims, k, None))
      keys == {k \in {"department", "clinic_id", "clearance", "region"} : Present(k)}
      FilterKey(k) == IF k = "clearance" THEN "clearance_level" ELSE k
      ClaimKey(f) == IF f = "clearance_level" THEN "clearance" ELSE f
  IN  [f \in {FilterKey(k) : k \in keys} |-> claims[ClaimKey(f)]]

\* ------------------------------------------------------- local_knowledge
NamespaceDirMap ==
  [clinical |-> "clinical", company |-> "company", grc |-> "grc", devsecops |-> "devsecops"]

\* _load_docs_for_namespace: the docs of the namespace's folder, sorted
LoadDocsForNamespace(kn, namespace) ==
  LET folder_name == Get(NamespaceDirMap, namespace, None)
  IN  IF folder_name = None THEN <<>>
      ELSE IF folder_name \notin DOMAIN kn THEN <<>>
      ELSE kn[folder_name]

\* docs[:n] of Python: a negative n counts from the end
SlicePrefix(docs, n) ==
  LET stop == IF n >= 0 THEN (IF n < Len(docs) THEN n ELSE Len(docs))
              ELSE (IF Len(docs) + n > 0 THEN Len(docs) + n ELSE 0)
  IN  SubSeq(docs, 1, stop)

\* search_local_docs
SearchLocalDocs(kn, namespace, query_text, claims, max_docs) ==
  LET docs == SlicePrefix(LoadDocsForNamespace(kn, namespace), max_docs)
      role == Get(claims, "role", "Unknown")
      dept == Get(claims, "department", "Unknown")
  IN  [docs |-> docs,
       answer |-> IF docs = <<>>
                  THEN [kind |-> "no_local_docs", namespace |-> namespace, role |-> role,
                        dept |-> dept, query |-> query_text]
                  ELSE [kind |-> "local_answer", namespace |-> namespace, role |-> role,
                        dept |-> dept, query |-> query_text, titles |-> docs]]

DefaultTopK == 5

\* `top_k or self.config.defaults.get("top_k", 5)`
EffectiveTopK(cfg, top_k) ==
  IF top_k.some /\ top_k.v # 0 THEN top_k.v ELSE Get(cfg.defaults, "top_k", DefaultTopK)

\* RAGOrchestrator.query: the value returned or the exception raised, and
\* the cached index afterwards. index_result is what index.query does when
\* it is reached: [raised |-> TRUE] or [raised |-> FALSE, matches |-> ...].
QueryResult(cfg, be, cached, kn, query_text, claims, requested_scope, top_k, index_result) ==
  LET role == Get(claims, "role", None)
      namespace == SelectNamespace(cfg, role, requested_scope)
      idx == GetIndex(be, cached)
      k == EffectiveTopK(cfg, top_k)
      metadata_filter == BuildMetadataFilter(claims)
      local == SearchLocalDocs(kn, namespace, query_text, claims, k)
  IN  IF ~TruthyStr(role)
      THEN [raised |-> FALSE, index |-> cached,
            value |-> [allowed |-> FALSE, namespace |-> None, matches |-> <<>>,
                       reason |-> [kind |-> "missing_role"]]]
      ELSE IF namespace = None
      THEN [raised |-> FALSE, index |-> cached,
            value |-> [allowed |-> FALSE, namespace |-> None, matches |-> <<>>,
                       reason |-> [kind |-> "no_namespace", role |-> role,
                                   scope |-> requested_scope]]]
      ELSE IF idx.raised
      THEN [raised |-> FALSE, index |-> idx.index,
            value |-> [allowed |-> TRUE, namespace |-> namespace, matches |-> local.docs,
                       reason |-> [kind |-> "local_knowledge", exc |-> idx.exc],
                       query_text |-> query_text, metadata_filter |-> metadata_filter,
                       local_answer |-> local.answer]]
      ELSE IF index_result.raised
      THEN [raised |-> TRUE, index |-> idx.index, value |-> [exc |-> "index.query failed"]]
      ELSE [raised |-> FALSE, index |-> idx.index,
            value |-> [allowed |-> TRUE, namespace |-> namespace,
                       matches |-> index_result.matches,
                       query_text |-> query_text, metadata_filter |-> metadata_filter]]

\* RAGOrchestrator.query(query_text, claims, requested_scope, top_k)
Query(query_text, claims, requested_scope, top_k, index_result) ==
  /\ LET r == QueryResult(ragCfg, backend, pineconeIndex, knowledge,
                          query_text, claims, requested_scope, top_k, index_result)
     IN  /\ rag' = [op |-> "query", query_text |-> query_text, claims |-> claims,
                    requested_scope |-> requested_scope, top_k |-> top_k,
                    raised |-> r.raised, result |-> r.value]
         /\ pineconeIndex' = r.index
  /\ UNCHANGED <<gwVars, ragCfg, backend, knowledge, mcpVars>>

\* ------------------------------------------------ POST /rag/query (mcp_api)
\* build_debug_claims: the claims come from the X-Debug-* headers, each
\* with a default for a header that is not sent
BuildDebugClaims(headers) ==
  LET role == Get(headers, "X-Debug-Role", "Physician")
  IN  [sub |-> <<"debug", role>>,
       role |-> role,
       department |-> Get(headers, "X-Debug-Department", "Cardiology"),
       clinic_id |-> Get(headers, "X-Debug-Clinic-Id", "clinic_01"),
       clearance |-> Get(headers, "X-Debug-Clearance", "clinical_sensitive"),
       region |-> Get(headers, "X-Debug-Region", "US-West")]

\* identity_aware_rag: the API key gate, the claims of the headers, the
\* orchestrator's query (top_k not passed), and 403 when it denies.
\* status is the HTTP status; an exception of query is a 500.
IdentityAwareRag(authorized, headers, query_text, scope, index_result) ==
  /\ IF ~authorized
     THEN /\ rag' = [op |-> "rag_api", status |-> 401, headers |-> headers,
                     requested_scope |-> scope]
          /\ UNCHANGED pineconeIndex
     ELSE LET claims == BuildDebugClaims(headers)
              r == QueryResult(ragCfg, backend, pineconeIndex, knowledge,
                               query_text, claims, scope, Nothing, index_result)
          IN  /\ rag' = [op |-> "rag_api", headers |-> headers, claims |-> claims,
                         requested_scope |-> scope,
                         status |-> IF r.raised THEN 500
                                    ELSE IF r.value.allowed THEN 200 ELSE 403,
                         raised |-> r.raised, result |-> r.value]
              /\ pineconeIndex' = r.index
  /\ UNCHANGED <<gwVars, ragCfg, backend, knowledge, mcpVars>>

\* a direct call of RAGOrchestrator.build_metadata_filter(claims)
BuildMetadataFilterCall(claims) ==
  /\ rag' = [op |-> "build_metadata_filter", claims |-> claims,
             result |-> BuildMetadataFilter(claims)]
  /\ UNCHANGED <<gwVars, ragCfg, backend, pineconeIndex, knowledge, mcpVars>>

\* ------------------------------------------- the RAG configurations
NamespaceNames == {"clinical", "company", "grc"}

NamespaceCfgs ==
  {[allowed_roles |-> YList({"Physician"}), rag_scopes |-> YList({"clinical_department"})],
   [allowed_roles |-> YList({"Physician", "IT_Admin"}),
    rag_scopes |-> YList({"clinical_department", "clinical_all"})],
   [allowed_roles |-> YList({"IT_Admin"}), rag_scopes |-> YList({"clinical_all"})],
   [allowed_roles |-> YList({"Physician"})],
   [rag_scopes |-> YList({"clinical_department"})]}

\* lists of namespaces with distinct names
NamespaceLists ==
  UNION {{nss \in [1..n -> [name : NamespaceNames, cfg : NamespaceCfgs]] :
            \A i, j \in 1..n : i # j => nss[i].name # nss[j].name} :
         n \in 0..MaxNamespaces}

DefaultNamespaces ==
  <<[name |-> "clinical",
     cfg |-> [allowed_roles |-> YList({"Physician"}),
              rag_scopes |-> YList({"clinical_department"})]],
    [name |-> "company",
     cfg |-> [allowed_roles |-> YList({"Physician", "IT_Admin"}),
              rag_scopes |-> YList({"clinical_department", "clinical_all"})]]>>

DefaultRagConfig == [namespaces |-> DefaultNamespaces, defaults |-> <<>>]

RagConfigs ==
  {[namespaces |-> nss, defaults |-> <<>>] : nss \in NamespaceLists}
  \cup {[namespaces |-> DefaultNamespaces, defaults |-> [top_k |-> k]] : k \in 1..MaxTopK}

BackendNotInstalled == [installed |-> FALSE, api_key |-> FALSE, init_ok |-> FALSE]
Backends == [installed : BOOLEAN, api_key : BOOLEAN, init_ok : BOOLEAN]

DocTitles == [i \in 1..MaxDocs |-> <<"doc", i>>]
DefaultKnowledge == [clinical |-> DocTitles, company |-> <<>>]
Knowledges ==
  {[clinical |-> SubSeq(DocTitles, 1, n)] : n \in 0..MaxDocs} \cup {DefaultKnowledge}

\* claims as the callers of query build them: any key may be missing
RagClaims ==
  {[sub |-> "u1"], [sub |-> "u1", department |-> "Cardiology"]}
  \cup [sub : {"u1"}, role : RoleNames \cup {""}, department : {"Cardiology", ""}]

\* claims handed to the filter builder: each attribute absent, None, empty
\* or one of two values
AttributeKeys == {"department", "clinic_id", "clearance", "region"}
AttributeValues == {None, "", "a", "b"}
FilterClaims == UNION {[ks -> AttributeValues] : ks \in SUBSET AttributeKeys}

TopKs == {Nothing} \cup {Some(k) : k \in 0..MaxTopK}

IndexResults ==
  {[raised |-> TRUE], [raised |-> FALSE, matches |-> <<>>],
   [raised |-> FALSE, matches |-> <<[id |-> "vec1", score |-> 1, metadata |-> <<>>]>>]}

\* ============================================================ MCP servers
\* Two dispatchers carry the name MCPServer: the one of the package
\* lab_platform.mcp_layer.mcp_server (its __init__.py, which the tests and
\* the MCP API import), here "package", and the one of server.py, here
\* "server".

\* a Python value a handler returns, tagged with its type
PyBool(b) == [py |-> "bool", bool |-> b]
PyStr(x) == IF x = None THEN [py |-> "none"] ELSE [py |-> "str", str |-> x]
PyDict(d) == [py |-> "dict", dict |-> d]

\* MCPServer.__init__ of the package: the names registered in self.tools
PackageTools ==
  {"company_lookup_policy", "company_get_clinic_workflow", "company_list_allowed_actions",
   "identity_create_demo_user", "identity_check_user_role", "identity_check_MFA_config",
   "identity_list_user_permissions", "identity_assign_role", "identity_disable_user",
   "grant_temp_admin", "restrict_bucket_policy", "grc_lookup_control",
   "grc_map_policy_to_framework", "rag_query"}

\* iam_tools.identity_create_demo_user
IdentityCreateDemoUser(db, user_id, role, mfa_enabled) ==
  [raised |-> FALSE, exc |-> None, value |-> PyBool(TRUE),
   db |-> DictPut(db, user_id,
                  [role |-> role, mfa_enabled |-> mfa_enabled, disabled |-> FALSE,
                   permissions |-> <<>>, temp_admin_until |-> None])]

\* iam_tools.identity_check_user_role
IdentityCheckUserRole(db, user_id) ==
  [raised |-> FALSE, exc |-> None, db |-> db,
   value |-> IF user_id \notin DOMAIN db THEN PyStr(None)
             ELSE PyStr(Get(db[user_id], "role", None))]

\* iam_tools.identity_disable_user
IdentityDisableUser(db, user_id) ==
  IF user_id \notin DOMAIN db
  THEN [raised |-> FALSE, exc |-> None, value |-> PyBool(FALSE), db |-> db]
  ELSE [raised |-> FALSE, exc |-> None, value |-> PyBool(TRUE),
        db |-> [db EXCEPT ![user_id] = DictPut(@, "disabled", TRUE)]]

\* iam_tools.grc_lookup_control
GrcLookupControl(db, control_id) ==
  [raised |-> FALSE, exc |-> None, db |-> db,
   value |-> PyDict([control_id |-> control_id, framework |-> "ISO-27001",
                     section |-> "A.9 Access Control",
                     description |-> "Stubbed control lookup for lab."])]

HandlerRaised(db, exc) == [raised |-> TRUE, exc |-> exc, value |-> PyStr(None), db |-> db]

\* the try block of the package's run_tool: the call routed by tool name
PackageInvoke(db, tool_name, input_data, caller_claims) ==
  CASE tool_name = "identity_create_demo_user" ->
         IF {"user_id", "role"} \subseteq DOMAIN input_data
         THEN IdentityCreateDemoUser(db, input_data["user_id"], input_data["role"],
                                     Get(input_data, "mfa_enabled", TRUE))
         ELSE HandlerRaised(db, "KeyError")
    [] tool_name = "identity_check_user_role" ->
         IF "user_id" \in DOMAIN input_data
         THEN IdentityCheckUserRole(db, input_data["user_id"])
         ELSE HandlerRaised(db, "KeyError")
    [] tool_name = "rag_query" ->
         \* _rag_query_wrapper reads self._rag_orchestrator, which this
         \* class's __init__ never sets
         HandlerRaised(db, "AttributeError: _rag_orchestrator")
    [] tool_name = "identity_disable_user" ->
         \* func(**input_data)
         IF DOMAIN input_data = {"user_id"}
         THEN IdentityDisableUser(db, input_data["user_id"])
         ELSE HandlerRaised(db, "TypeError")
    [] tool_name = "grc_lookup_control" ->
         \* func(**input_data)
         IF DOMAIN input_data = {"control_id"}
         THEN GrcLookupControl(db, input_data["control_id"])
         ELSE HandlerRaised(db, "TypeError")
    [] OTHER -> HandlerRaised(db, "TypeError")

\* what run_tool of the package hands the handler: the fields of the input
\* as keyword arguments, and the caller's claims for rag_query alone
PackageHandlerArgs(tool_name, input_data, caller_claims) ==
  IF tool_name = "rag_query"
  THEN [input |-> input_data, context |-> [given |-> TRUE, caller |-> caller_claims]]
  ELSE [input |-> input_data, context |-> [given |-> FALSE]]

NotAllowedError(tool_name, role) ==
  [kind |-> "Tool is not allowed for role", tool |-> tool_name, role |-> role]
UnknownToolError(tool_name) == [kind |-> "Unknown tool", tool |-> tool_name]

PackageRunToolNoGate(file, db, tool_name, input_data, caller_claims) ==
  LET role == Get(caller_claims, "role", "Unknown")
      inv == PackageInvoke(db, tool_name, input_data, caller_claims)
  IN  IF tool_name \notin PackageTools
      THEN [result |-> [success |-> FALSE, error |-> UnknownToolError(tool_name)],
            trace |-> <<"unknown_tool">>, db |-> db]
      ELSE IF inv.raised
      THEN [result |-> [success |-> FALSE,
                        error |-> [kind |-> "Tool failed", tool |-> tool_name,
                                   exc |-> inv.exc]],
            trace |-> <<"tool_found", "handler_invoked", "handler_raised">>,
            db |-> inv.db]
      ELSE [result |-> [success |-> TRUE, result |-> inv.value],
            trace |-> <<"tool_found", "handler_invoked", "handler_returned">>,
            db |-> inv.db]

\* run_tool of the package's MCPServer: the result returned, the steps taken
\* in order, and the directory afterwards
PackageRunTool(file, db, tool_name, input_data, caller_claims) ==
  LET role == Get(caller_claims, "role", "Unknown")
      inv == PackageInvoke(db, tool_name, input_data, caller_claims)
  IN  IF ~IsToolAllowed(file, role, tool_name)
      THEN [result |-> [success |-> FALSE, error |-> NotAllowedError(tool_name, role)],
            trace |-> <<"rbac_deny">>, db |-> db]
      ELSE IF tool_name \notin PackageTools
      THEN [result |-> [success |-> FALSE, error |-> UnknownToolError(tool_name)],
            trace |-> <<"rbac_pass", "unknown_tool">>, db |-> db]
      ELSE IF inv.raised
      THEN [result |-> [success |-> FALSE,
                        error |-> [kind |-> "Tool failed", tool |-> tool_name,
                                   exc |-> inv.exc]],
            trace |-> <<"rbac_pass", "tool_found", "handler_invoked", "handler_raised">>,
            db |-> inv.db]
      ELSE [result |-> [success |-> TRUE, result |-> inv.value],
            trace |-> <<"rbac_pass", "tool_found", "handler_invoked", "handler_returned">>,
            db |-> inv.db]

\* run_tool(tool_name, input_data, caller_claims) of the package's MCPServer
PackageRunToolCall(tool_name, input_data, caller_claims) ==
  /\ LET r == PackageRunTool(toolPolicyFile, iamDb, tool_name, input_data, caller_claims)
     IN  /\ mcp' = [op |-> "run_tool", server |-> "package", tool |-> tool_name,
                    input |-> input_data, caller |-> caller_claims, db_before |-> iamDb,
                    log_before |-> accessLog,
                    raised |-> FALSE, result |-> r.result, trace |-> r.trace]
         /\ iamDb' = r.db
  /\ UNCHANGED <<gwVars, ragVars, srvTools, accessLog, threads>>

\* ------------------------------------------------------------- server.py
\* the handlers config.yaml can name, by module.function; each is called
\* as handler(input_data, context)
HandlerEcho == "tools.echo.run"
HandlerRestrictBucket == "tools.iam_tools.restrict_bucket_policy"
HandlerDisableUser == "tools.iam_tools.identity_disable_user"

ServerInvoke(handler, input_data, context, now) ==
  CASE handler = HandlerEcho ->
         [raised |-> FALSE, exc |-> None,
          output |-> [success |-> TRUE, echo |-> input_data,
                      metadata |-> [received_at |-> now,
                                    caller_id |-> Get(context.caller, "id", None),
                                    caller_role |-> Get(context.caller, "role", None)]]]
    [] handler = HandlerRestrictBucket ->
         \* restrict_bucket_policy(bucket_name, reason): two positional
         \* parameters, a mapping without a success flag
         [raised |-> FALSE, exc |-> None,
          output |-> [bucket_name |-> input_data, action |-> "restrict_policy",
                      status |-> "requested", reason |-> context]]
    [] OTHER ->
         \* identity_disable_user(user_id) takes one positional argument
         [raised |-> TRUE, exc |-> "TypeError", output |-> <<>>]

\* `if "success" not in output: output = {"success": True, **output}`
NormalizeSuccess(output) ==
  IF "success" \in DOMAIN output THEN output
  ELSE [k \in DOMAIN output \cup {"success"} |->
          IF k = "success" THEN TRUE ELSE output[k]]

\* MCPServer._log: the record appended to the JSONL file
LogRecord(tool_name, caller, result, allowed) ==
  [tool |-> tool_name, caller |-> caller, success |-> result["success"],
   allowed |-> allowed]

\* what run_tool of server.py hands the handler: the input and the context
\* {"caller": caller, "tool_config": tool.config}
ServerHandlerArgs(tool, input_data, caller) ==
  [input |-> input_data,
   context |-> [given |-> TRUE, caller |-> caller, tool_config |-> tool.config]]

\* `tool.allowed_requester_roles and caller_role not in tool.allowed_requester_roles`
ServerRbacDenies(tool, caller_role) ==
  tool.allowed_requester_roles # {} /\ caller_role \notin tool.allowed_requester_roles

\* run_tool of server.py: the result returned or the exception raised, the
\* steps taken in order, and the log afterwards. writes[k] tells whether the
\* k-th write to the log file made by this call succeeds.
ServerRunTool(tools, log, now, tool_name, input_data, caller, writes) ==
  LET tool == tools[tool_name]
      caller_role == Get(caller, "role", None)
      context == [caller |-> caller, tool_config |-> tool.config]
      inv == ServerInvoke(tool.handler, input_data, context, now)
      unknown == [success |-> FALSE, error |-> UnknownToolError(tool_name)]
      denied == [success |-> FALSE,
                 error |-> [kind |-> "Role not allowed to run", role |-> caller_role,
                            tool |-> tool_name]]
      ok == NormalizeSuccess(inv.output)
      failed == [success |-> FALSE, error |-> [kind |-> "str(exc)", exc |-> inv.exc]]
      logfail == [success |-> FALSE, error |-> [kind |-> "str(exc)", exc |-> "OSError"]]
      Raise(tr) == [raised |-> TRUE, result |-> [exc |-> "OSError"], trace |-> tr, log |-> log]
      Return(res, allowed, tr) ==
        [raised |-> FALSE, result |-> res, trace |-> Append(tr, "log_written"),
         log |-> Append(log, LogRecord(tool_name, caller, res, allowed))]
  IN  IF tool_name \notin DOMAIN tools
      THEN IF writes[1] THEN Return(unknown, FALSE, <<"unknown_tool">>)
           ELSE Raise(<<"unknown_tool", "log_failed">>)
      ELSE IF ServerRbacDenies(tool, caller_role)
      THEN IF writes[1] THEN Return(denied, FALSE, <<"tool_found", "rbac_deny">>)
           ELSE Raise(<<"tool_found", "rbac_deny", "log_failed">>)
      ELSE IF inv.raised
      THEN \* except branch: one write
           IF writes[1]
           THEN Return(failed, TRUE,
                       <<"tool_found", "rbac_pass", "handler_invoked", "handler_raised">>)
           ELSE Raise(<<"tool_found", "rbac_pass", "handler_invoked", "handler_raised",
                        "log_failed">>)
      ELSE \* the write inside the try block; its failure lands in the except
           \* branch, which writes again
           IF writes[1]
           THEN Return(ok, TRUE,
                       <<"tool_found", "rbac_pass", "handler_invoked", "handler_returned">>)
           ELSE IF writes[2]
           THEN Return(logfail, TRUE,
                       <<"tool_found", "rbac_pass", "handler_invoked", "handler_returned",
                         "log_failed">>)
           ELSE Raise(<<"tool_found", "rbac_pass", "handler_invoked", "handler_returned",
                        "log_failed", "log_failed">>)

\* run_tool(tool_name, input_data, caller) of server.py's MCPServer
ServerRunToolCall(tool_name, input_data, caller, writes) ==
  /\ LET r == ServerRunTool(srvTools, accessLog, clock, tool_name, input_data, caller, writes)
     IN  /\ mcp' = [op |-> "run_tool", server |-> "server", tool |-> tool_name,
                    input |-> input_data, caller |-> caller, db_before |-> iamDb,
                    log_before |-> accessLog,
                    raised |-> r.raised, result |-> r.result, trace |-> r.trace]
         /\ accessLog' = r.log
  /\ UNCHANGED <<gwVars, ragVars, srvTools, iamDb, threads>>

\* ------------------------------------- server.py under concurrent callers
\* Each caller runs run_tool in a thread of its own. _log opens the file in
\* append mode, f.write puts the line in the file object's private buffer,
\* and leaving the with block flushes the buffer to the file as one append.
ThreadIds == 1..MaxThreads

NotCalled == [pc |-> "idle", line |-> <<>>, buffer |-> <<>>, after |-> {}, pos |-> 0]
NoCallers == [t \in ThreadIds |-> NotCalled]

LogAppendTruncating(file, buffer) == buffer

\* the file after a buffer is flushed to a descriptor opened with "a"
LogAppend(file, buffer) == file \o buffer

\* run_tool up to the `with self.log_path.open("a")` of _log: the record is
\* built and the file is open
ThreadCall(t, tool_name, input_data, caller) ==
  /\ threads[t].pc = "idle"
  /\ LET r == ServerRunTool(srvTools, <<>>, clock, tool_name, input_data, caller,
                            [k \in 1..2 |-> TRUE])
     IN  threads' = [threads EXCEPT ![t] =
                       [pc |-> "log_open", line |-> r.log, buffer |-> <<>>,
                        after |-> {u \in ThreadIds : threads[u].pc = "returned"},
                        pos |-> 0]]
  /\ UNCHANGED <<gwVars, ragVars, srvTools, iamDb, accessLog, mcp>>

\* f.write(json.dumps(record) + "\n")
ThreadWrite(t) ==
  /\ threads[t].pc = "log_open"
  /\ threads' = [threads EXCEPT ![t].pc = "log_written", ![t].buffer = threads[t].line]
  /\ UNCHANGED <<gwVars, ragVars, srvTools, iamDb, accessLog, mcp>>

\* the end of the with block, and the return of run_tool
ThreadClose(t) ==
  /\ threads[t].pc = "log_written"
  /\ accessLog' = LogAppend(accessLog, threads[t].buffer)
  /\ threads' = [threads EXCEPT ![t].pc = "returned", ![t].buffer = <<>>,
                                ![t].pos = Len(accessLog) + 1]
  /\ UNCHANGED <<gwVars, ragVars, srvTools, iamDb, mcp>>

\* --------------------------------------- iam_tools under concurrent callers
\* iam_tools.identity_assign_role (permissions not given)
IdentityAssignRole(db, user_id, role) ==
  LET user == IF user_id \in DOMAIN db THEN db[user_id] ELSE <<>>
  IN  [raised |-> FALSE, exc |-> None, value |-> PyBool(TRUE),
       db |-> DictPut(db, user_id, DictPut(user, "role", role))]

\* iam_tools.grant_temp_admin; the permission lists of the model are [] and
\* ["admin"], so sorted(perms | {"admin"}) is ["admin"]
GrantTempAdmin(db, user_id, until_iso) ==
  IF user_id \notin DOMAIN db
  THEN [raised |-> FALSE, exc |-> None, value |-> PyBool(FALSE), db |-> db]
  ELSE [raised |-> FALSE, exc |-> None, value |-> PyBool(TRUE),
        db |-> [db EXCEPT ![user_id] =
                  DictPut(DictPut(@, "permissions", <<"admin">>),
                          "temp_admin_until", until_iso)]]

\* a mutating tool run on the directory it loaded: what it returns and the
\* directory it hands to _save_db
IamApply(call, db) ==
  CASE call.tool = "identity_create_demo_user" ->
         IdentityCreateDemoUser(db, call.user_id, call.role, TRUE)
    [] call.tool = "identity_assign_role" ->
         IdentityAssignRole(db, call.user_id, call.role)
    [] call.tool = "identity_disable_user" ->
         IdentityDisableUser(db, call.user_id)
    [] OTHER ->
         GrantTempAdmin(db, call.user_id, call.until_iso)

\* the tool returns before _save_db: the user is not in the directory
IamReturnsEarly(call, db) ==
  /\ call.tool \in {"identity_disable_user", "grant_temp_admin"}
  /\ call.user_id \notin DOMAIN db

\* _load_db and the update of the loaded dict: the whole file is read, and
\* the tool either returns False or holds the directory it will save
IamLoad(t, call) ==
  /\ threads[t].pc = "idle"
  /\ LET out == IamApply(call, iamDb)
     IN  threads' = [threads EXCEPT ![t] =
                       [pc |-> IF IamReturnsEarly(call, iamDb) THEN "returned" ELSE "loaded",
                        call |-> call, saves |-> ~IamReturnsEarly(call, iamDb),
                        pending |-> out.db, value |-> out.value]]
  /\ UNCHANGED <<gwVars, ragVars, srvTools, iamDb, accessLog, mcp>>

\* _save_db: DB_PATH.write_text(json.dumps(db)) replaces the whole file
SaveDb(file, pending, user_id) == pending

IamSave(t) ==
  /\ threads[t].pc = "loaded"
  /\ iamDb' = SaveDb(iamDb, threads[t].pending, threads[t].call.user_id)
  /\ threads' = [threads EXCEPT ![t].pc = "returned"]
  /\ UNCHANGED <<gwVars, ragVars, srvTools, accessLog, mcp>>

\* ------------------------------------------- the MCP configurations
McpRoleNames == {"Physician", "IT_Admin", "Demo"}
McpToolNames ==
  {"echo", "identity_create_demo_user", "identity_check_user_role",
   "identity_disable_user", "grc_lookup_control", "rag_query", "does_not_exist"}

\* caller claims of the package's server, and callers of server.py
PackageCallers == {<<>>} \cup [role : McpRoleNames]
ServerCallers == {[id |-> "demo.user"]} \cup [id : {"demo.user"}, role : McpRoleNames]

ToolInputs ==
  {<<>>, [user_id |-> "alice"], [user_id |-> "bob"],
   [user_id |-> "bob", role |-> "Physician"], [control_id |-> "AC-2"],
   [message |-> "Test 123"]}

\* whether each of the (at most two) log writes of one call succeeds
WriteOutcomes == [1..2 -> BOOLEAN]

ServerTool(name, handler, roles) ==
  [name |-> name, handler |-> handler, allowed_requester_roles |-> roles,
   config |-> [function |-> handler]]

RequesterRoleLists == {{}, {"Demo"}, {"IT_Admin"}, {"Demo", "IT_Admin"}, {Wildcard}}

DefaultServerTools == [echo |-> ServerTool("echo", HandlerEcho, {})]

ServerConfigs ==
  {<<>>}
  \cup {[echo |-> ServerTool("echo", HandlerEcho, r)] : r \in RequesterRoleLists}
  \cup {[echo |-> ServerTool("echo", h, r),
         identity_disable_user |-> ServerTool("identity_disable_user", HandlerDisableUser, r)] :
          h \in {HandlerEcho, HandlerRestrictBucket}, r \in RequesterRoleLists}

IamUser(role, disabled) ==
  [role |-> role, mfa_enabled |-> TRUE, disabled |-> disabled, permissions |-> <<>>,
   temp_admin_until |-> None]

IamDbs == {<<>>, [alice |-> IamUser("Physician", FALSE)],
           [alice |-> IamUser("Physician", TRUE), bob |-> IamUser("IT_Admin", FALSE)]}

\* ------------------------------------------------------- specifications
\* the RAG orchestrator with its default configuration and no query made
GatewayAtRest ==
  /\ policy = [roles |-> DefaultRoles, abac_rules |-> <<RuleSameDept>>]
  /\ toolPolicyFile = DefaultToolPolicyFile
  /\ clock = 0
  /\ gw = Idle
  /\ gwLog = <<>>
  /\ rbacOut = Idle

RagAtRest ==
  /\ ragCfg = DefaultRagConfig
  /\ backend = BackendNotInstalled
  /\ pineconeIndex = None
  /\ knowledge = DefaultKnowledge
  /\ rag = Idle

McpAtRest ==
  /\ srvTools = DefaultServerTools
  /\ iamDb = <<>>
  /\ accessLog = <<>>
  /\ mcp = Idle
  /\ threads = NoCallers

InitGateway ==
  /\ policy \in PolicyDocs
  /\ toolPolicyFile = DefaultToolPolicyFile
  /\ clock \in 0..MaxClock
  /\ gw = Idle
  /\ gwLog = <<>>
  /\ rbacOut = Idle
  /\ RagAtRest
  /\ McpAtRest

\* one request per behaviour: the handlers keep nothing from one request to
\* the next but the printed evidence
NextGateway ==
  \/ \E c \in GatewayClaims, s \in ScopeNames, d \in DocMetadata :
        gw = Idle /\ RagDecision(c, s, d)
  \/ \E c \in GatewayClaims, t \in ToolNames :
        gw = Idle /\ McpDecision(c, t)

SpecGateway == InitGateway /\ [][NextGateway]_vars

InitRbac ==
  /\ policy \in PolicyDocs
  /\ toolPolicyFile \in ToolPolicyFiles
  /\ clock = 0
  /\ gw = Idle
  /\ gwLog = <<>>
  /\ rbacOut = Idle
  /\ RagAtRest
  /\ McpAtRest

NextRbac ==
  \/ \E r \in RoleNames : LookupScopes(r)
  \/ \E r \in RoleNames, t \in ToolNames : LookupToolForRole(r, t)
  \/ \E r \in RoleNames, t \in ToolNames : LookupToolAllowed(r, t)

SpecRbac == InitRbac /\ [][NextRbac]_vars

\* every namespace list with the backend absent, and the default
\* namespaces with every backend and knowledge folder
InitRag ==
  /\ GatewayAtRest
  /\ \/ /\ ragCfg \in RagConfigs
        /\ backend = BackendNotInstalled
        /\ knowledge = DefaultKnowledge
     \/ /\ ragCfg = DefaultRagConfig
        /\ backend \in Backends
        /\ knowledge \in Knowledges
  /\ pineconeIndex = None
  /\ rag = Idle
  /\ McpAtRest

\* what index.query may do in this state: it is not reached without an index
ReachableIndexResults ==
  IF GetIndex(backend, pineconeIndex).raised THEN {[raised |-> TRUE]} ELSE IndexResults

\* one query per behaviour, or two when the first one created the index
NextRag ==
  \E c \in RagClaims, s \in ScopeNames \cup {""}, k \in TopKs, ir \in ReachableIndexResults :
    /\ rag = Idle \/ (pineconeIndex # None /\ ~rag.raised /\ rag.result.matches = <<>>)
    /\ Query("q", c, s, k, ir)

SpecRag == InitRag /\ [][NextRag]_vars

\* the ABAC evaluator alone: every rule list, called once and once more on
\* the same dicts, or under a permutation of the rules
AbacClaims ==
  [sub : {"u1"}, role : {"Physician"}, department : Departments \cup {None},
   license_status : {"valid", None}]

InitAbac ==
  /\ policy \in {[roles |-> DefaultRoles, abac_rules |-> rl] : rl \in RuleLists}
  /\ toolPolicyFile = DefaultToolPolicyFile
  /\ clock = 0
  /\ gw = Idle
  /\ gwLog = <<>>
  /\ rbacOut = Idle
  /\ RagAtRest
  /\ McpAtRest

NextAbac ==
  \/ \E c \in AbacClaims, d \in DocMetadata, s \in ScopeNames :
        rbacOut = Idle /\ EvaluateAbacCall(c, d, s)
  \/ rbacOut.op = "evaluate_abac_for_doc" /\ Len(rbacOut.calls) = 1 /\ EvaluateAbacAgain
  \/ \E c \in AbacClaims, d \in DocMetadata, s \in ScopeNames,
        perm \in RuleOrders(Len(AbacRulesOf(policy))) :
        rbacOut = Idle /\ EvaluateAbacPermuted(c, d, s, perm)

SpecAbac == InitAbac /\ [][NextAbac]_vars

\* the /rag/query endpoint: the gateway's policy document next to every
\* namespace list, the backend absent; one request per behaviour
DebugHeaders ==
  {<<>>}
  \cup {[h \in {"X-Debug-Role"} |-> r] : r \in RoleNames \cup {""}}
  \cup {[h \in {"X-Debug-Role", "X-Debug-Department"} |->
           IF h = "X-Debug-Role" THEN r ELSE d] : r \in RoleNames, d \in Departments}

InitRagApi ==
  /\ policy \in {[roles |-> DefaultRoles, abac_rules |-> rl] : rl \in {<<>>, <<RuleSameDept>>}}
  /\ toolPolicyFile = DefaultToolPolicyFile
  /\ clock = 0
  /\ gw = Idle
  /\ gwLog = <<>>
  /\ rbacOut = Idle
  /\ ragCfg \in RagConfigs
  /\ backend = BackendNotInstalled
  /\ pineconeIndex = None
  /\ knowledge = DefaultKnowledge
  /\ rag = Idle
  /\ McpAtRest

NextRagApi ==
  \E a \in BOOLEAN, h \in DebugHeaders, s \in ScopeNames \cup {""} :
    rag = Idle /\ IdentityAwareRag(a, h, "q", s, [raised |-> TRUE])

SpecRagApi == InitRagApi /\ [][NextRagApi]_vars

\* the mutating IAM tools under concurrent callers, each caller working on
\* a user of its own
IamUserIds == <<"alice", "bob", "carol">>

IamCalls(u) ==
  {[tool |-> "identity_create_demo_user", user_id |-> u, role |-> "Physician"],
   [tool |-> "identity_assign_role", user_id |-> u, role |-> "IT_Admin"],
   [tool |-> "identity_disable_user", user_id |-> u],
   [tool |-> "grant_temp_admin", user_id |-> u, until_iso |-> "2030-01-01T00:00:00Z"]}

InitIam ==
  /\ GatewayAtRest
  /\ RagAtRest
  /\ srvTools = DefaultServerTools
  /\ iamDb \in IamDbs
  /\ accessLog = <<>>
  /\ mcp = Idle
  /\ threads = NoCallers

NextIam ==
  \/ \E t \in ThreadIds : \E call \in IamCalls(IamUserIds[t]) : IamLoad(t, call)
  \/ \E t \in ThreadIds : IamSave(t)

SpecIam == InitIam /\ [][NextIam]_vars

\* the filter builder alone, on every claims dict of FilterClaims
InitFilter ==
  /\ policy = [roles |-> DefaultRoles, abac_rules |-> <<RuleSameDept>>]
  /\ toolPolicyFile = DefaultToolPolicyFile
  /\ clock = 0
  /\ gw = Idle
  /\ gwLog = <<>>
  /\ rbacOut = Idle
  /\ RagAtRest
  /\ McpAtRest

NextFilter == \E c \in FilterClaims : rag = Idle /\ BuildMetadataFilterCall(c)

SpecFilter == InitFilter /\ [][NextFilter]_vars

\* every tool policy file with the default server tools, and every server
\* configuration with the default tool policy file
InitMcp ==
  /\ policy = [roles |-> DefaultRoles, abac_rules |-> <<RuleSameDept>>]
  /\ clock = 0
  /\ gw = Idle
  /\ gwLog = <<>>
  /\ rbacOut = Idle
  /\ RagAtRest
  /\ \/ toolPolicyFile \in ToolPolicyFiles /\ srvTools = DefaultServerTools
     \/ toolPolicyFile = DefaultToolPolicyFile /\ srvTools \in ServerConfigs
  /\ iamDb \in IamDbs
  /\ accessLog = <<>>
  /\ mcp = Idle
  /\ threads = NoCallers

\* one call per behaviour
NextMcp ==
  \/ \E t \in McpToolNames, i \in ToolInputs, c \in PackageCallers :
       mcp = Idle /\ PackageRunToolCall(t, i, c)
  \/ \E t \in McpToolNames, i \in ToolInputs, c \in ServerCallers, w \in WriteOutcomes :
       mcp = Idle /\ ServerRunToolCall(t, i, c, w)

SpecMcp == InitMcp /\ [][NextMcp]_vars

\* ---- the gateway over one process run: requests one after another (the
\* handlers are coroutines that never await, so each runs to completion)
\* while the clock advances
RecorderClaims ==
  [sub : {"u1"}, role : {"Physician", "Guest"}, department : {"Cardiology", None},
   clinic_id : {None}, clearance : {None}, license_status : {None}, region : {None}]

InitRecorder ==
  /\ GatewayAtRest
  /\ RagAtRest
  /\ McpAtRest

NextRecorder ==
  \/ \E c \in RecorderClaims, s \in ScopeNames, d \in DocMetadata :
        Len(gwLog) < MaxCalls /\ RagDecision(c, s, d)
  \/ \E c \in RecorderClaims, t \in {"echo", "identity_disable_user"} :
        Len(gwLog) < MaxCalls /\ McpDecision(c, t)
  \/ Tick

SpecRecorder == InitRecorder /\ [][NextRecorder]_vars

\* concurrent callers: one tool that only IT_Admin may run
ThreadTools == [echo |-> ServerTool("echo", HandlerEcho, {"IT_Admin"})]
ThreadToolNames == {"echo", "does_not_exist"}
ThreadCallers == [id : {"demo.user"}, role : {"Demo", "IT_Admin"}]

InitThreads ==
  /\ GatewayAtRest
  /\ RagAtRest
  /\ srvTools = ThreadTools
  /\ iamDb = <<>>
  /\ accessLog = <<>>
  /\ mcp = Idle
  /\ threads = NoCallers

NextThreads ==
  \/ \E t \in ThreadIds, n \in ThreadToolNames, c \in ThreadCallers :
        ThreadCall(t, n, <<>>, c)
  \/ \E t \in ThreadIds : ThreadWrite(t)
  \/ \E t \in ThreadIds : ThreadClose(t)

SpecThreads == InitThreads /\ [][NextThreads]_vars

\* ---- the three decision points together: at most one request to the
\* gateway and one query per behaviour; the gateway is asked in the
\* behaviours that start from the orchestrator's default configuration, and
\* the orchestrator in those that start from the gateway's
DefaultPolicyLoaded ==
  /\ policy = [roles |-> DefaultRoles, abac_rules |-> <<RuleSameDept>>]
  /\ clock = 0

DefaultRagLoaded ==
  /\ ragCfg = DefaultRagConfig
  /\ backend = BackendNotInstalled
  /\ knowledge = DefaultKnowledge

InitDecisions == InitGateway \/ InitRag

NextDecisions ==
  \/ \E c \in GatewayClaims, s \in ScopeNames, d \in DocMetadata :
        gw = Idle /\ DefaultRagLoaded /\ RagDecision(c, s, d)
  \/ \E c \in GatewayClaims, t \in ToolNames :
        gw = Idle /\ DefaultRagLoaded /\ McpDecision(c, t)
  \/ \E c \in RagClaims, s \in ScopeNames \cup {""}, k \in TopKs, ir \in ReachableIndexResults :
        rag = Idle /\ DefaultPolicyLoaded /\ Query("q", c, s, k, ir)

SpecDecisions == InitDecisions /\ [][NextDecisions]_vars

\* ================================================================ claims
\* ---- helpers of the claims about evaluate_abac_for_doc
\* a rule is applicable to a scope when its applies_to is absent, null or
\* empty, or contains the scope
Applicable(rule, scope) ==
  \/ "applies_to" \notin DOMAIN rule
  \/ rule["applies_to"] = YNull
  \/ rule["applies_to"] = YList({})
  \/ rule["applies_to"].t = "list" /\ scope \in rule["applies_to"].v

\* the last request was a retrieval authorization that reached ABAC
AbacRan == gw.op = "rag" /\ gw.abac_called

\* conditions that only read claims and doc
ReadOnlyConditions == {CondSameDept, CondLicense, CondHasDept, NoCondition}
ReadOnlyRules(rules) ==
  \A i \in 1..Len(rules) : Get(rules[i], "condition", NoCondition) \in ReadOnlyConditions

\* the condition of rule, evaluated on the request as it arrived, is true
HoldsOnRequest(rule) ==
  LET ev == EvalCondition(Get(rule, "condition", NoCondition), gw.claims, gw.doc_metadata)
  IN  ~ev.raised /\ ev.result

\* the indices of the rules that took a denying branch, in rule order
DenyingIndices(outcomes) ==
  LET Denies(i) == outcomes[i] \in {"fail", "error"}
  IN  SelectSeq([i \in 1..Len(outcomes) |-> i], Denies)

\* C1: evaluate_abac_for_doc returns allowed = true if and only if every
\* applicable rule's condition evaluated to true without error: a rule is
\* skipped exactly when it is not applicable, and any applicable rule that
\* is false or errors makes the decision false. For rule lists whose
\* conditions only read their inputs, "evaluated to true" is the condition's
\* value on the request as it arrived.
C1_AllowedIffEveryApplicableRulePasses ==
  AbacRan =>
    LET rules == AbacRulesOf(policy)
        scope == gw.requested_scope
    IN  /\ Len(gw.outcomes) = Len(rules)
        /\ \A i \in 1..Len(rules) :
             (gw.outcomes[i] = "skip") <=> ~Applicable(rules[i], scope)
        /\ gw.resp.allowed <=>
             \A i \in 1..Len(rules) :
               Applicable(rules[i], scope) => gw.outcomes[i] = "pass"
        /\ ReadOnlyRules(rules) =>
             (gw.resp.allowed <=>
                \A i \in 1..Len(rules) :
                  Applicable(rules[i], scope) => HoldsOnRequest(rules[i]))

\* a request allowed with one rule skipped for its scope and one rule passed
C1_Witness ==
  /\ AbacRan
  /\ gw.resp.allowed
  /\ gw.outcomes = <<"skip", "pass">>

\* C2: when an applicable rule's condition raises, evaluate_abac_for_doc
\* still returns: the decision is false, the reasons name that rule with
\* the error, and every rule after it is evaluated too.
C2_ConditionFaultDeniesAndContinues ==
  AbacRan =>
    LET rules == AbacRulesOf(policy)
    IN  \A i \in 1..Len(gw.outcomes) :
          gw.outcomes[i] = "error" =>
            /\ gw.resp.allowed = FALSE
            /\ \E k \in 1..Len(gw.resp.reasons) :
                 /\ gw.resp.reasons[k].kind = "error"
                 /\ gw.resp.reasons[k].rule = rules[i].name
            /\ Len(gw.outcomes) = Len(rules)
            /\ \A j \in (i + 1)..Len(rules) :
                 Applicable(rules[j], gw.requested_scope) => gw.outcomes[j] # "skip"

\* the first rule raised and the rule after it was evaluated and passed
C2_Witness ==
  /\ AbacRan
  /\ gw.outcomes = <<"error", "pass">>
  /\ gw.resp.allowed = FALSE

\* C3: evaluate_abac_for_doc never exits early: every configured rule is
\* visited, and the reasons are exactly one entry per applicable rule whose
\* condition is false or errors, in rule order; a rule that passes or is
\* skipped contributes none.
C3_OneReasonPerDenyingRuleInOrder ==
  AbacRan =>
    LET rules == AbacRulesOf(policy)
        deny == DenyingIndices(gw.outcomes)
    IN  /\ Len(gw.outcomes) = Len(rules)
        /\ Len(gw.resp.reasons) = Len(deny)
        /\ \A k \in 1..Len(deny) :
             /\ gw.resp.reasons[k].rule = rules[deny[k]].name
             /\ gw.resp.reasons[k].kind =
                  (IF gw.outcomes[deny[k]] = "error" THEN "error" ELSE "failed")
        /\ \A i \in 1..Len(rules) :
             gw.outcomes[i] \in {"fail", "error"} => Applicable(rules[i], gw.requested_scope)

\* two rules denied, of different names, and both are reported in order
C3_Witness ==
  /\ AbacRan
  /\ gw.outcomes = <<"fail", "error">>
  /\ Len(gw.resp.reasons) = 2
  /\ gw.resp.reasons[1].kind = "failed"
  /\ gw.resp.reasons[2].kind = "error"

\* ---- helpers of the claims about the RBAC lookups
\* the role has an entry whose key is a list that contains item
ListedIn(roles_cfg, role, key, item) ==
  /\ role \in DOMAIN roles_cfg
  /\ key \in DOMAIN roles_cfg[role]
  /\ roles_cfg[role][key].t = "list"
  /\ item \in roles_cfg[role][key].v

\* the roles of mcp_tool_policies.yaml, none when the file is missing
ToolPolicyRoles ==
  IF toolPolicyFile.exists /\ "roles" \in DOMAIN toolPolicyFile.data
  THEN toolPolicyFile.data["roles"] ELSE <<>>

\* C4: rag_decision denies a scope outside the role's allowed scopes with
\* the reason that names the scope, the role and its scopes, without
\* evaluating the ABAC rules (the request's dicts are untouched); so a
\* response with allowed = true means the scope is listed in the role's
\* rag_access and the ABAC evaluation of the request allowed it.
C4_ScopeCheckGatesAbac ==
  gw.op = "rag" =>
    LET role == gw.claims["role"]
        scope == gw.requested_scope
        listed == ListedIn(RolesOf(policy), role, "rag_access", scope)
    IN  /\ ~listed =>
             /\ gw.resp.allowed = FALSE
             /\ Len(gw.resp.reasons) = 1
             /\ gw.resp.reasons[1].kind = "scope_not_in_role"
             /\ gw.resp.reasons[1].scope = scope
             /\ gw.resp.reasons[1].role = role
             /\ ~gw.abac_called
             /\ gw.outcomes = <<>>
             /\ gw.claims_after = gw.claims
             /\ gw.doc_after = gw.doc_metadata
        /\ gw.resp.allowed =>
             /\ listed
             /\ gw.abac_called
             /\ EvaluateAbacForDoc(policy, gw.claims, gw.doc_metadata, scope).allowed

\* Scenario A: Physician with rag_access [clinical_department] asks for
\* clinical_all while a rule that would have applied is configured
C4_Witness ==
  /\ gw.op = "rag"
  /\ gw.claims["role"] = "Physician"
  /\ gw.requested_scope = "clinical_all"
  /\ "Physician" \in DOMAIN RolesOf(policy)
  /\ RolesOf(policy)["Physician"] = DefaultRoles.Physician
  /\ Len(AbacRulesOf(policy)) > 0
  /\ AbacRulesOf(policy)[1] = RulePopDept
  /\ "department" \in DOMAIN gw.doc_metadata
  /\ gw.resp.allowed = FALSE
  /\ ~gw.abac_called

\* C5: for a role that the policy store does not hold, the allowed-scopes
\* lookup returns the empty set and both tool-allowed checks return false,
\* for every tool name (the lookups return; none has a raising path).
C5_UnknownRoleIsDenied ==
  /\ rbacOut.op = "get_rag_scopes_for_role" /\ rbacOut.role \notin DOMAIN RolesOf(policy)
       => rbacOut.result = {}
  /\ rbacOut.op = "is_tool_allowed_for_role" /\ rbacOut.role \notin DOMAIN RolesOf(policy)
       => rbacOut.result = FALSE
  /\ rbacOut.op = "is_tool_allowed" /\ rbacOut.role \notin DOMAIN ToolPolicyRoles
       => rbacOut.result = FALSE

\* is_tool_allowed asked about a role missing from a policy file that
\* grants another role every tool
C5_Witness ==
  /\ rbacOut.op = "is_tool_allowed"
  /\ rbacOut.role = "Guest"
  /\ "IT_Admin" \in DOMAIN ToolPolicyRoles
  /\ rbacOut.result = FALSE

\* C6: a tool-allowed check returns true for every tool name when the
\* role's tool list holds the wildcard, and otherwise exactly for the tool
\* names the list holds.
C6_WildcardOrListed ==
  /\ rbacOut.op = "is_tool_allowed_for_role" =>
       rbacOut.result =
         (\/ ListedIn(RolesOf(policy), rbacOut.role, "mcp_tools", Wildcard)
          \/ ListedIn(RolesOf(policy), rbacOut.role, "mcp_tools", rbacOut.tool))
  /\ rbacOut.op = "is_tool_allowed" =>
       rbacOut.result =
         (\/ ListedIn(ToolPolicyRoles, rbacOut.role, "allowed_tools", Wildcard)
          \/ ListedIn(ToolPolicyRoles, rbacOut.role, "allowed_tools", rbacOut.tool))

\* a tool the list does not name is allowed through the wildcard
C6_Witness ==
  /\ rbacOut.op = "is_tool_allowed_for_role"
  /\ ListedIn(RolesOf(policy), rbacOut.role, "mcp_tools", Wildcard)
  /\ ~ListedIn(RolesOf(policy), rbacOut.role, "mcp_tools", rbacOut.tool)
  /\ rbacOut.result = TRUE

\* ---- helpers of the claims about the namespace router
\* the configured namespace holds the role in allowed_roles and the scope
\* in rag_scopes
NsMatches(ns, role, scope) ==
  /\ "allowed_roles" \in DOMAIN ns.cfg
  /\ "rag_scopes" \in DOMAIN ns.cfg
  /\ role \in ns.cfg["allowed_roles"].v
  /\ scope \in ns.cfg["rag_scopes"].v

\* the positions of the configured namespaces that match the last query
MatchingNamespaces ==
  {i \in 1..Len(ragCfg.namespaces) :
     NsMatches(ragCfg.namespaces[i], rag.claims["role"], rag.requested_scope)}

\* the last operation was a query by a caller whose claims carry a role
QueryWithRole ==
  /\ rag.op = "query"
  /\ "role" \in DOMAIN rag.claims
  /\ rag.claims["role"] # ""

Denied(result) == result.allowed = FALSE /\ result.namespace = None

C8_AllowedOnlyWithMatchingNamespace ==
  rag.op = "query" =>
    /\ ~rag.raised /\ rag.result.allowed =>
         /\ QueryWithRole
         /\ \E i \in MatchingNamespaces :
              rag.result.namespace = ragCfg.namespaces[i].name
    /\ ~QueryWithRole =>
         /\ ~rag.raised
         /\ Denied(rag.result)
         /\ rag.result.matches = <<>>
         /\ rag.result.reason.kind = "missing_role"
    /\ QueryWithRole /\ MatchingNamespaces = {} =>
         /\ ~rag.raised
         /\ Denied(rag.result)
         /\ rag.result.matches = <<>>
         /\ rag.result.reason.kind = "no_namespace"
         /\ rag.result.reason.role = rag.claims["role"]
         /\ rag.result.reason.scope = rag.requested_scope

\* a role that one namespace allows asks for a scope that no namespace
\* serves to it
C8_Witness ==
  /\ QueryWithRole
  /\ \E i \in 1..Len(ragCfg.namespaces) :
       /\ "allowed_roles" \in DOMAIN ragCfg.namespaces[i].cfg
       /\ rag.claims["role"] \in ragCfg.namespaces[i].cfg["allowed_roles"].v
  /\ MatchingNamespaces = {}
  /\ rag.requested_scope \in ScopeNames
  /\ rag.result.reason.kind = "no_namespace"

\* ---- helpers of the claims about run_tool
McpCall == mcp.op = "run_tool"
McpCallerRole ==
  IF mcp.server = "package" THEN Get(mcp.caller, "role", "Unknown")
  ELSE Get(mcp.caller, "role", None)

\* the positions of an event in the steps of the call
Steps(e) == {k \in 1..Len(mcp.trace) : mcp.trace[k] = e}
HandlerInvoked == Steps("handler_invoked") # {}

\* the tool is registered with the server that took the call
Registered ==
  IF mcp.server = "package" THEN mcp.tool \in PackageTools
  ELSE mcp.tool \in DOMAIN srvTools

\* the RBAC rule of the server that took the call admits caller and tool
RbacAdmits ==
  IF mcp.server = "package"
  THEN \/ ListedIn(ToolPolicyRoles, McpCallerRole, "allowed_tools", mcp.tool)
       \/ ListedIn(ToolPolicyRoles, McpCallerRole, "allowed_tools", Wildcard)
  ELSE /\ mcp.tool \in DOMAIN srvTools
       /\ \/ srvTools[mcp.tool].allowed_requester_roles = {}
          \/ McpCallerRole \in srvTools[mcp.tool].allowed_requester_roles

\* the caller's role has an allowed_tools list, and it is empty
EmptyAllowedTools ==
  /\ McpCallerRole \in DOMAIN ToolPolicyRoles
  /\ "allowed_tools" \in DOMAIN ToolPolicyRoles[McpCallerRole]
  /\ ToolPolicyRoles[McpCallerRole]["allowed_tools"] = YList({})

\* C9: a call to the package's run_tool from a role whose allowed_tools list
\* is empty returns success = false with the error that says the tool is not
\* allowed for the role, without invoking the handler (the user directory is
\* as it was); and on either server a handler invocation comes after a
\* passed RBAC check, which the server's rule for that caller and tool
\* justifies.
C9_HandlerOnlyAfterRbacPass ==
  McpCall =>
    /\ (mcp.server = "package" /\ EmptyAllowedTools) =>
         /\ ~mcp.raised
         /\ mcp.result.success = FALSE
         /\ mcp.result.error = NotAllowedError(mcp.tool, McpCallerRole)
         /\ ~HandlerInvoked
         /\ iamDb = mcp.db_before
    /\ HandlerInvoked =>
         /\ RbacAdmits
         /\ \E i \in Steps("rbac_pass") : \A j \in Steps("handler_invoked") : i < j

\* Scenario D: identity_disable_user for an enabled user, requested by a
\* role whose allowed_tools list is empty: refused, the user stays enabled
C9_Witness ==
  /\ McpCall
  /\ mcp.server = "package"
  /\ EmptyAllowedTools
  /\ mcp.tool = "identity_disable_user"
  /\ mcp.input = [user_id |-> "alice"]
  /\ "alice" \in DOMAIN iamDb
  /\ iamDb["alice"].disabled = FALSE
  /\ mcp.result.success = FALSE
  /\ ~HandlerInvoked

\* C10, as stated, for the calls that return: run_tool with a tool name that
\* is not registered returns success = false with the 'Unknown tool' error
\* for every caller, the unknown-tool check being the first step taken.
C10_UnknownToolBeforeRbac ==
  (McpCall /\ ~Registered /\ ~mcp.raised) =>
    /\ mcp.result.success = FALSE
    /\ mcp.result.error = UnknownToolError(mcp.tool)
    /\ mcp.trace[1] = "unknown_tool"

\* C11, as stated, for server.py's calls to a registered tool whose evidence
\* write succeeds:
\* the RBAC gate lets the caller through exactly when the tool's
\* allowed_requester_roles holds the wildcard token or the caller's role
\* (so an empty list admits nobody, and the wildcard admits everybody).
C11_RequesterRolesEmptyNobodyWildcardAll ==
  (McpCall /\ mcp.server = "server" /\ Registered /\ Steps("log_failed") = {}) =>
    LET roles == srvTools[mcp.tool].allowed_requester_roles
    IN  (Steps("rbac_pass") # {}) <=> (Wildcard \in roles \/ McpCallerRole \in roles)

\* C12, as stated, for the calls that return: a call of run_tool (either
\* server) leaves exactly one more record in the evidence log than it found,
\* and so does a call of rag_decision or mcp_decision.
C12_ExactlyOneRecordPerCall ==
  /\ (McpCall /\ ~mcp.raised) => Len(accessLog) = Len(mcp.log_before) + 1
  /\ gw.op \in {"rag", "mcp"} => Len(gwLog) = Len(gw.log_before) + 1

\* C13, as stated: every call of run_tool, on either server, returns a
\* mapping that carries the success flag and a result or an error; none
\* ends with an exception reaching the caller, whatever the handler does and
\* whether or not the evidence write succeeds.
C13_RunToolNeverRaises ==
  McpCall =>
    /\ ~mcp.raised
    /\ "success" \in DOMAIN mcp.result
    /\ mcp.result["success"] = FALSE => "error" \in DOMAIN mcp.result

\* the output of the handler that the call invoked
HandlerOutput ==
  IF mcp.server = "package"
  THEN PackageInvoke(mcp.db_before, mcp.tool, mcp.input, mcp.caller).value
  ELSE PyDict(ServerInvoke(srvTools[mcp.tool].handler, mcp.input,
                           [caller |-> mcp.caller,
                            tool_config |-> srvTools[mcp.tool].config], clock).output)

\* a mapping with success = true added unless it carries the flag already
WithSuccessFlag(output) ==
  [k \in DOMAIN output \cup {"success"} |->
     IF k \in DOMAIN output THEN output[k] ELSE TRUE]

\* C14, as stated, for the calls whose evidence write (if any) succeeds:
\* when the handler of a run_tool call returned a mapping, run_tool returns
\* that mapping, with success = true added when the mapping has no success
\* flag and as it is when it has one.
C14_SuccessFlagNormalised ==
  (/\ McpCall
   /\ Steps("handler_returned") # {}
   /\ Steps("log_failed") = {}
   /\ HandlerOutput.py = "dict") =>
    /\ ~mcp.raised
    /\ DOMAIN mcp.result = DOMAIN WithSuccessFlag(HandlerOutput.dict)
    /\ \A k \in DOMAIN mcp.result : mcp.result[k] = WithSuccessFlag(HandlerOutput.dict)[k]

\* C15, as stated: the evidence records written in one process run carry
\* pairwise different ids, and each response carries the id of its record.
C15_EvidenceIdsUnique ==
  /\ \A i, j \in 1..Len(gwLog) :
       i # j => gwLog[i].evidence_id # gwLog[j].evidence_id
  /\ gw.op \in {"rag", "mcp"} =>
       gw.resp.evidence_record_id = gwLog[Len(gwLog)].evidence_id

\* ---- helpers of the claim about the evidence log under concurrency
CallReturned(t) == threads[t].pc = "returned"

C17_LogFailureKeepsHandlerResult ==
  (/\ McpCall
   /\ mcp.server = "server"
   /\ Steps("handler_returned") # {}
   /\ ~mcp.raised) =>
    /\ DOMAIN mcp.result = DOMAIN WithSuccessFlag(HandlerOutput.dict)
    /\ \A k \in DOMAIN mcp.result : mcp.result[k] = WithSuccessFlag(HandlerOutput.dict)[k]

\* C18: a response with allowed = false carries a reason: rag_decision and
\* mcp_decision return a non-empty reasons list, and RAGOrchestrator.query
\* returns a reason that says what was missing.
C18_NoSilentDenial ==
  /\ (gw.op \in {"rag", "mcp"} /\ ~gw.resp.allowed) =>
       /\ Len(gw.resp.reasons) >= 1
       /\ \A i \in 1..Len(gw.resp.reasons) :
            gw.resp.reasons[i].kind \in
              {"scope_not_in_role", "error", "failed", "missing_role",
               "tool_not_allowed", "license_not_valid"}
  /\ (rag.op = "query" /\ ~rag.raised /\ ~rag.result.allowed) =>
       /\ "reason" \in DOMAIN rag.result
       /\ rag.result.reason.kind \in {"missing_role", "no_namespace"}

\* a request denied by an ABAC rule whose condition is false, and a query
\* denied for want of a namespace, in one behaviour
C18_Witness ==
  /\ gw.op = "rag"
  /\ ~gw.resp.allowed
  /\ gw.abac_called
  /\ \E i \in 1..Len(gw.outcomes) : gw.outcomes[i] = "fail"
  /\ rag.op = "query"
  /\ ~rag.raised
  /\ ~rag.result.allowed
  /\ rag.result.reason.kind = "no_namespace"

\* ---- helpers of the claims about the local fallback
\* the primary backend cannot be had: the package is missing, or no index
\* was made earlier and the API key is missing or the client fails to
\* initialise
BackendUnavailable ==
  \/ ~backend.installed
  \/ pineconeIndex = None /\ (~backend.api_key \/ ~backend.init_ok)

\* the namespace the last query resolved, None when it resolved none
ResolvedNamespace ==
  IF TruthyStr(Get(rag.claims, "role", None))
  THEN SelectNamespace(ragCfg, Get(rag.claims, "role", None), rag.requested_scope)
  ELSE None

\* what the local fallback returns for the last query
LocalFallback ==
  SearchLocalDocs(knowledge, ResolvedNamespace, rag.query_text, rag.claims,
                  EffectiveTopK(ragCfg, rag.top_k))

\* C19: whenever the backend is not installed, not configured or fails to
\* initialise, and a namespace was resolved, query does not raise and
\* returns allowed = true with that namespace and the documents (and the
\* answer) of the local fallback.
C19_BackendUnavailableFallsBack ==
  (rag.op = "query" /\ BackendUnavailable /\ ResolvedNamespace # None) =>
    /\ ~rag.raised
    /\ rag.result.allowed
    /\ rag.result.namespace = ResolvedNamespace
    /\ rag.result.matches = LocalFallback.docs
    /\ "local_answer" \in DOMAIN rag.result
    /\ rag.result.local_answer = LocalFallback.answer

\* the three ways the backend is unavailable: each reaches the fallback
\* with documents to return
C19_Witness ==
  /\ rag.op = "query" /\ BackendUnavailable /\ ResolvedNamespace # None
  /\ backend.installed /\ backend.api_key /\ ~backend.init_ok
  /\ ~rag.raised /\ rag.result.allowed
  /\ Len(rag.result.matches) >= 1

\* the last query was answered by the local fallback
AnsweredLocally ==
  /\ rag.op = "query"
  /\ ~rag.raised
  /\ rag.result.allowed
  /\ "local_answer" \in DOMAIN rag.result

\* C20: the local fallback returns at most maxResults documents for every
\* maxResults the caller passes, 0 included, and its answer carries the
\* query text whether or not the namespace has local documents.
C20_FallbackAtMostMaxResults ==
  AnsweredLocally =>
    /\ rag.top_k.some => Len(rag.result.matches) <= rag.top_k.v
    /\ rag.result.local_answer.query = rag.query_text

\* ---- helpers of the claim about the metadata filter
\* the key of the filter that stands for a claim
FilterKeyOf(k) == IF k = "clearance" THEN "clearance_level" ELSE k

\* the claim is present and non-empty
ClaimPresent(claims, k) == k \in DOMAIN claims /\ claims[k] # None /\ claims[k] # ""

\* C21: the filter has a key for department, clinic id, clearance and
\* region exactly when that claim is present and non-empty, with the
\* claim's value; absent or empty claims give no key and no default, and
\* no other key is produced.
C21_FilterProjectsPresentClaims ==
  rag.op = "build_metadata_filter" =>
    /\ DOMAIN rag.result \subseteq {FilterKeyOf(k) : k \in AttributeKeys}
    /\ \A k \in AttributeKeys :
         /\ FilterKeyOf(k) \in DOMAIN rag.result <=> ClaimPresent(rag.claims, k)
         /\ ClaimPresent(rag.claims, k) => rag.result[FilterKeyOf(k)] = rag.claims[k]

\* a claims dict with one attribute absent, one None, one empty and one set
C21_Witness ==
  /\ rag.op = "build_metadata_filter"
  /\ "department" \notin DOMAIN rag.claims
  /\ "clinic_id" \in DOMAIN rag.claims /\ rag.claims["clinic_id"] = None
  /\ "region" \in DOMAIN rag.claims /\ rag.claims["region"] = ""
  /\ ClaimPresent(rag.claims, "clearance")
  /\ DOMAIN rag.result = {"clearance_level"}

\* ---- helpers of the claims about the ABAC evaluator
\* evaluate_abac_for_doc was called twice in a row on the same dicts
EvaluatedTwice == rbacOut.op = "evaluate_abac_for_doc" /\ Len(rbacOut.calls) = 2

\* C22: ABAC evaluation is idempotent: evaluating the same (claims,
\* resource, scope) twice in a row with unchanged configuration yields
\* identical (allowed, reasons), for every rule set of the condition
\* language.
C22_AbacIdempotent ==
  EvaluatedTwice => rbacOut.calls[1] = rbacOut.calls[2]

\* C23: rule order does not affect the outcome: under every permutation of
\* the configured rules, evaluate_abac_for_doc returns the same allowed
\* value for the same (claims, resource, scope).
C23_RuleOrderKeepsAllowed ==
  rbacOut.op = "evaluate_abac_permuted" =>
    rbacOut.configured.allowed = rbacOut.permuted.allowed

\* C28: ABAC evaluation is side-effect-free: for every rule condition the
\* language admits, evaluate_abac_for_doc leaves the claims and the
\* resource metadata as the caller handed them over.
C28_AbacLeavesInputsUnchanged ==
  rbacOut.op = "evaluate_abac_for_doc" =>
    /\ rbacOut.claims_now = rbacOut.claims
    /\ rbacOut.doc_now = rbacOut.doc

\* ---- helpers of the claim about the order of the retrieval path
\* the /rag/query request obtained a namespace (and the documents under it)
ObtainedNamespace ==
  /\ rag.op = "rag_api"
  /\ rag.status = 200
  /\ rag.result.namespace # None

\* the RBAC scope check of the policy engine allows the request
RbacAllowsScope ==
  rag.requested_scope \in GetRagScopesForRole(policy, rag.claims.role)

\* the ABAC evaluation allows the request for some resource metadata
AbacAllowsScope ==
  \E d \in DocMetadata :
    EvaluateAbacForDoc(policy, rag.claims, d, rag.requested_scope).allowed

\* C24: on every retrieval request path the namespace router is reached
\* only after the RBAC scope check and the ABAC evaluation have allowed the
\* request: a request RBAC or ABAC would deny obtains no namespace and no
\* documents, the /rag/query path included.
C24_NamespaceOnlyAfterRbacAndAbac ==
  ObtainedNamespace => RbacAllowsScope /\ AbacAllowsScope

\* ---- helper of the claim about policy loading
\* the package's run_tool put the call before is_tool_allowed, which read
\* the tool policies
EvaluatedAgainstToolPolicies ==
  /\ McpCall
  /\ mcp.server = "package"
  /\ Steps("rbac_deny") \cup Steps("rbac_pass") # {}

\* C25: failure to load a policy document is fatal at startup and never a
\* per-request condition: no request is evaluated against an empty policy
\* standing in for a policy file that could not be loaded.
C25_NoRequestUnderUnloadedPolicy ==
  EvaluatedAgainstToolPolicies => toolPolicyFile.exists

\* ---- helpers of the claim about the happy path of run_tool
\* what the handler of the call was handed
HandlerArgs ==
  IF mcp.server = "package"
  THEN PackageHandlerArgs(mcp.tool, mcp.input, mcp.caller)
  ELSE ServerHandlerArgs(srvTools[mcp.tool], mcp.input, mcp.caller)

\* the call went through without a raising handler or a failing log write
CallWentThrough == Steps("handler_raised") = {} /\ Steps("log_failed") = {}

\* the echo tool is what the name echo stands for on the server called
EchoIsEcho == mcp.server = "server" => srvTools["echo"].handler = HandlerEcho

\* C26: for a registered tool the caller's role may run, run_tool invokes
\* the handler exactly once with the caller's input and a context carrying
\* the caller's claims and returns success = true with the handler's
\* output; so a call of echo by a role that may run it returns the input
\* under "echo" and the caller's id and role under "metadata".
C26_AllowedCallRunsHandlerOnce ==
  /\ (McpCall /\ Registered /\ RbacAdmits /\ CallWentThrough) =>
       /\ ~mcp.raised
       /\ Cardinality(Steps("handler_invoked")) = 1
       /\ HandlerArgs.input = mcp.input
       /\ HandlerArgs.context.given
       /\ HandlerArgs.context.caller = mcp.caller
       /\ mcp.result.success
  /\ (McpCall /\ mcp.tool = "echo" /\ RbacAdmits /\ EchoIsEcho /\ CallWentThrough) =>
       /\ ~mcp.raised
       /\ mcp.result.success
       /\ "echo" \in DOMAIN mcp.result
       /\ mcp.result.echo = mcp.input
       /\ mcp.result.metadata.caller_id = Get(mcp.caller, "id", None)
       /\ mcp.result.metadata.caller_role = Get(mcp.caller, "role", None)

\* ---- helpers of the claim about evaluate_tool_abac
ToolCallerHasRole == gw.claims["role"] # None /\ gw.claims["role"] # ""

\* the role's tool list names the tool or holds the wildcard
ToolPermitted ==
  \/ ListedIn(RolesOf(policy), gw.claims["role"], "mcp_tools", gw.tool_name)
  \/ ListedIn(RolesOf(policy), gw.claims["role"], "mcp_tools", Wildcard)

\* the license is valid when the tool is an identity tool
ToolLicensed ==
  StartsWithIdentity(gw.tool_name) => gw.claims["license_status"] = "valid"

\* C27: evaluate_tool_abac allows exactly when the claims carry a non-empty
\* role, the role's tool list permits the tool (by name or by wildcard)
\* and, for a tool whose name starts with identity_, license_status is
\* valid; the checks are made in that order and the first that fails gives
\* the single reason returned.
C27_ToolAbacChecksInOrder ==
  gw.op = "mcp" =>
    /\ gw.resp.allowed = (ToolCallerHasRole /\ ToolPermitted /\ ToolLicensed)
    /\ Len(gw.resp.reasons) = (IF gw.resp.allowed THEN 0 ELSE 1)
    /\ ~ToolCallerHasRole => gw.resp.reasons[1].kind = "missing_role"
    /\ (ToolCallerHasRole /\ ~ToolPermitted) =>
         /\ gw.resp.reasons[1].kind = "tool_not_allowed"
         /\ gw.resp.reasons[1].tool = gw.tool_name
         /\ gw.resp.reasons[1].role = gw.claims["role"]
    /\ (ToolCallerHasRole /\ ToolPermitted /\ ~ToolLicensed) =>
         gw.resp.reasons[1].kind = "license_not_valid"

\* an identity tool asked for by a role that may not run it and whose
\* license is not valid: the tool list speaks first
C27_Witness ==
  /\ gw.op = "mcp"
  /\ ToolCallerHasRole /\ ~ToolPermitted /\ ~ToolLicensed
  /\ gw.resp.allowed = FALSE
  /\ gw.resp.reasons[1].kind = "tool_not_allowed"

\* ---- helpers of the claim about concurrent IAM tools
IamAllReturned == \A t \in ThreadIds : threads[t].pc = "returned"

\* the directory shows the update caller t made to its user
IamUpdateKept(t) ==
  LET u == threads[t].call.user_id
  IN  /\ u \in DOMAIN iamDb
      /\ iamDb[u] = threads[t].pending[u]

\* C29: no update to the user directory is lost: when mutating IAM tools
\* run concurrently on different users, the directory afterwards shows the
\* update of each (as it would after the calls in some sequential order).
C29_NoLostDirectoryUpdate ==
  IamAllReturned => \A t \in ThreadIds : threads[t].saves => IamUpdateKept(t)

\* ---- helper of the claim about the success flag
\* the handler of the call returned, and what it returned reports failure:
\* False, or a mapping with allowed = false
HandlerReportedFailure ==
  /\ Steps("handler_returned") # {}
  /\ \/ HandlerOutput.py = "bool" /\ ~HandlerOutput.bool
     \/ /\ HandlerOutput.py = "dict"
        /\ "allowed" \in DOMAIN HandlerOutput.dict
        /\ ~HandlerOutput.dict["allowed"]

\* C30: the dispatcher's success flag reflects the tool's own outcome: when
\* a handler reports failure through its return value, run_tool does not
\* return success = true.
C30_SuccessReflectsToolOutcome ==
  (McpCall /\ ~mcp.raised /\ HandlerReportedFailure) => ~mcp.result.success

====
